---- MODULE Spec2Model ----
(***************************************************************************)
(* Position / ladder lifecycle of the polymarket-btc trading bot.          *)
(*                                                                         *)
(*  - SpecReplay : BacktestEngine (src/src/backtest/engine.ts), the        *)
(*                 single-threaded replay of a time-ordered tick list.     *)
(*  - SpecLive   : Bot (src/unnamed/part_004, lines 381-3190), the live    *)
(*                 engine: price callbacks and the polling tick, which     *)
(*                 interleave at their awaits of exchange I/O.             *)
(*                                                                         *)
(* Fixed-point arithmetic: prices and money are in thousandths of a        *)
(* dollar, shares in hundredths of a share; divisions truncate.            *)
(***************************************************************************)
EXTENDS Integers, Sequences, FiniteSets, TLC

VARIABLES
    config,     \* BacktestConfig / BotConfig + active mode: fixed during a run
    engine,     \* BacktestEngine instance fields
    run,        \* locals of BacktestEngine.run: clock, expiredMarkets, last tick
    state,      \* Bot.state (BotState)
    ex,         \* the exchange and the trades table (Trader, db collaborators)
    tasks,      \* in-flight async calls of the Bot: callbacks and polling ticks
    hist        \* observation of the live run (what the claims speak about)

vars == <<config, engine, run, state, ex, tasks, hist>>

-----------------------------------------------------------------------------
(* Units and bounds *)

\* $1.00, the smallest buy amount (buyAmount < 1)
MinBuyAmount == 1000
\* 0.01 share, below which holdings count as none
DustShares == 1
\* MIN_ORDER_SIZE (imported from ./trader): 5 shares
MIN_ORDER_SIZE == 500
\* priceTolerance = 0.005
PriceTolerance == 5
\* replay exit price of a lost market: 0.01
LostExitPrice == 10
\* replay entry price cap: 0.99
MaxFillPrice == 990

\* timestamp of the last tick of a replayed tick list (ticks come at 1, 2, ...)
MaxTime == 6

Min(a, b) == IF a <= b THEN a ELSE b
Max(a, b) == IF a >= b THEN a ELSE b
Abs(a) == IF a >= 0 THEN a ELSE 0 - a

InSeq(x, s) == \E i \in 1..Len(s) : s[i] = x

-----------------------------------------------------------------------------
(* Configuration: the parameter bundle handed to the engines *)

Step(id, sl, en, bt, btype, bval, st, stype, sval) ==
    [id |-> id, stopLoss |-> sl, enabled |-> en,
     buy |-> [triggerPrice |-> bt, sizeType |-> btype, sizeValue |-> bval],
     sell |-> [triggerPrice |-> st, sizeType |-> stype, sizeValue |-> sval]]

\* one step, as in the ladder test
StepsOne == << Step("step1", 400, TRUE, 600, "percent", 100, 700, "percent", 100) >>
\* two steps that each sell half of the shares held: shares remain at completion
StepsTwo == << Step("step1", 480, TRUE, 600, "percent", 50, 700, "percent", 50),
               Step("step2", 400, TRUE, 500, "percent", 100, 700, "percent", 50) >>
\* a disabled first step: the first enabled step is not at index 0
StepsDis == << Step("step0", 450, FALSE, 650, "percent", 100, 750, "percent", 100),
               Step("step1", 400, TRUE, 600, "fixed", 6000, 700, "fixed", 100000) >>
\* a disabled first step, and a step that sells all of its shares below its
\* buy trigger: the ladder completes on a losing trade
StepsLoss == << Step("step0", 450, FALSE, 650, "percent", 100, 750, "percent", 100),
                Step("step1", 400, TRUE, 600, "fixed", 6000, 580, "fixed", 100000) >>
\* one step that sells half of its shares
StepsHalf == << Step("step1", 400, TRUE, 600, "percent", 100, 700, "percent", 50) >>

BaseConfig ==
    [entryThreshold |-> 500, maxEntryPrice |-> 900, stopLoss |-> 400,
     maxSpread |-> 50, timeWindowMs |-> 5, profitTarget |-> 990,
     startingBalance |-> 12000, slippage |-> 0,
     compoundLimit |-> 0, baseBalance |-> 10000,
     riskMode |-> "normal", ladderSteps |-> << >>,
     maxPositions |-> 1, paperTrading |-> TRUE, paperFeeRate |-> 0]

LadderConfig(steps, window) ==
    [BaseConfig EXCEPT !.riskMode = "ladder", !.ladderSteps = steps,
                       !.timeWindowMs = window]

ReplayConfigs ==
    {BaseConfig, LadderConfig(StepsOne, 5), LadderConfig(StepsTwo, 6),
     LadderConfig(StepsDis, 6)}

-----------------------------------------------------------------------------
(* Markets and ticks of the replay *)

Markets == {"m1", "m2"}
endDate == [m \in Markets |-> IF m = "m1" THEN 3 ELSE 6]
upTokenId == [m \in Markets |-> IF m = "m1" THEN "m1up" ELSE "m2up"]
downTokenId == [m \in Markets |-> IF m = "m1" THEN "m1dn" ELSE "m2dn"]
\* HistoricalMarket.outcome, known upfront
outcome == [m \in Markets |-> IF m = "m1" THEN "null" ELSE "DOWN"]
ReplayTokens == {"m1up", "m2up", "m2dn"}
marketOf == [t \in {"m1up", "m1dn", "m2up", "m2dn"} |->
                IF t \in {"m1up", "m1dn"} THEN "m1" ELSE "m2"]

\* (bestBid, bestAsk) of a tick
Quotes == { <<640, 650>>, <<590, 600>>, <<700, 710>>, <<390, 400>>,
            <<570, 580>>, <<480, 500>>, <<0, 0>> }


-----------------------------------------------------------------------------
(* BacktestEngine: records *)

NoPosition ==
    [tokenId |-> "null", marketSlug |-> "null", side |-> "null",
     shares |-> 0, entryPrice |-> 0, entryTimestamp |-> 0]

NoTrade ==
    [marketSlug |-> "null", tokenId |-> "null", side |-> "null", entryPrice |-> 0,
     exitPrice |-> 0, shares |-> 0, entryTimestamp |-> 0, exitTimestamp |-> 0,
     exitReason |-> "null", pnl |-> 0, ladderStepId |-> "null"]

NoLadder ==
    [tokenId |-> "null", side |-> "null", marketSlug |-> "null",
     currentStepIndex |-> 0, currentStepPhase |-> "buy",
     completedSteps |-> << >>, skippedSteps |-> << >>, skippedReasons |-> << >>,
     totalShares |-> 0, totalCostBasis |-> 0, averageEntryPrice |-> 0,
     totalSharesSold |-> 0, totalSellProceeds |-> 0,
     ladderStartTime |-> 0, lastStepTime |-> 0, lastStepPrice |-> 0,
     tradeIds |-> << >>, needsRecovery |-> FALSE, status |-> "null"]

NoTick == [timestamp |-> 0, tokenId |-> "null", marketSlug |-> "null",
           bestBid |-> 0, bestAsk |-> 0]

\* Date.now(): a wall-clock reading, outside the replay clock's range
\* (later in a later run of the engine)
DateNow == MaxTime + 100 + (IF "runs" \in DOMAIN run THEN run.runs ELSE 0)

\* a / b truncated, 0 for a zero divisor's guarded uses
Div(a, b) == IF b = 0 THEN 0 ELSE a \div b

\* shares bought for `amount` at `price`
SharesFor(amount, price) == Div(amount * 100, price)
\* money for `shares` at `price`
Proceeds(shares, price) == (shares * price) \div 100

-----------------------------------------------------------------------------
(* BacktestEngine: normal mode *)

\* variant of checkCompoundLimit that never sweeps
bt_checkCompoundLimit_off(e) == e

bt_checkCompoundLimit(e) ==
    IF config.compoundLimit <= 0 THEN e
    ELSE IF e.balance <= config.compoundLimit THEN e
    ELSE [e EXCEPT !.savedProfit = @ + (e.balance - config.baseBalance),
                   !.balance = config.baseBalance]

\* variant of executeEntry that fills at the quoted ask
bt_executeEntry_atAsk(e, tick, market, side) ==
    [e EXCEPT !.position = [tokenId |-> tick.tokenId, marketSlug |-> market,
                            side |-> side, shares |-> SharesFor(e.balance, tick.bestAsk),
                            entryPrice |-> tick.bestAsk,
                            entryTimestamp |-> tick.timestamp],
              !.balance = 0]

bt_executeEntry(e, tick, market, side) ==
    LET entryPrice == Min((tick.bestAsk * (1000 + config.slippage)) \div 1000, MaxFillPrice)
        shares == SharesFor(e.balance, entryPrice)
    IN [e EXCEPT !.position = [tokenId |-> tick.tokenId, marketSlug |-> market,
                               side |-> side, shares |-> shares,
                               entryPrice |-> entryPrice,
                               entryTimestamp |-> tick.timestamp],
                 !.balance = 0]

bt_executeExit(e, exitPrice, exitTimestamp, exitReason) ==
    IF e.position = NoPosition THEN e
    ELSE
    LET finalExitPrice == IF exitReason = "STOP_LOSS"
                          THEN Max((exitPrice * (1000 - config.slippage)) \div 1000, LostExitPrice)
                          ELSE exitPrice
        pnl == ((finalExitPrice - e.position.entryPrice) * e.position.shares) \div 100
        trade == [marketSlug |-> e.position.marketSlug, tokenId |-> e.position.tokenId,
                  side |-> e.position.side, entryPrice |-> e.position.entryPrice,
                  exitPrice |-> finalExitPrice, shares |-> e.position.shares,
                  entryTimestamp |-> e.position.entryTimestamp,
                  exitTimestamp |-> exitTimestamp, exitReason |-> exitReason,
                  pnl |-> pnl, ladderStepId |-> "null"]
        proceeds == Proceeds(e.position.shares, finalExitPrice)
    IN bt_checkCompoundLimit(
         [e EXCEPT !.trades = Append(@, trade),
                   !.lastTrade = trade,
                   !.balance = proceeds,
                   !.equityCurve = Append(@, [timestamp |-> exitTimestamp, balance |-> proceeds]),
                   !.peakBalance = Max(@, proceeds),
                   !.position = NoPosition])

bt_checkStopLoss(e, tick) ==
    IF e.position = NoPosition THEN e
    ELSE IF tick.bestBid <= config.stopLoss
         THEN bt_executeExit(e, tick.bestBid, tick.timestamp, "STOP_LOSS")
         ELSE e

\* variant of checkEntry without the spread check
bt_checkEntry_anySpread(e, tick, market) ==
    LET timeRemaining == endDate[market] - tick.timestamp
        side == IF tick.tokenId = upTokenId[market] THEN "UP" ELSE "DOWN"
        askPrice == tick.bestAsk
    IN IF timeRemaining <= 0 \/ timeRemaining > config.timeWindowMs THEN e
       ELSE IF askPrice < config.entryThreshold \/ askPrice > config.maxEntryPrice THEN e
       ELSE IF askPrice >= config.profitTarget THEN e
       ELSE IF /\ e.lastTrade # NoTrade
               /\ e.lastTrade.marketSlug = market
               /\ e.lastTrade.side = side
               /\ e.lastTrade.pnl > 0 THEN e
       ELSE bt_executeEntry(e, tick, market, side)

\* the entry filter of bt_checkEntry, up to the opposite-side rule
bt_checkEntry(e, tick, market) ==
    LET timeRemaining == endDate[market] - tick.timestamp
        side == IF tick.tokenId = upTokenId[market] THEN "UP" ELSE "DOWN"
        spread == tick.bestAsk - tick.bestBid
        askPrice == tick.bestAsk
    IN IF timeRemaining <= 0 \/ timeRemaining > config.timeWindowMs THEN e
       ELSE IF spread > config.maxSpread THEN e
       ELSE IF askPrice < config.entryThreshold \/ askPrice > config.maxEntryPrice THEN e
       ELSE IF askPrice >= config.profitTarget THEN e
       ELSE IF /\ e.lastTrade # NoTrade
               /\ e.lastTrade.marketSlug = market
               /\ e.lastTrade.side = side
               /\ e.lastTrade.pnl > 0 THEN e
       ELSE bt_executeEntry(e, tick, market, side)

\* variant of the forced close that stamps the trade with the wall clock
\* instead of the end of the market
bt_closePositionAtExpiry_wallClock(e, market) ==
    IF e.position = NoPosition THEN e
    ELSE bt_executeExit(e, IF outcome[market] = e.position.side THEN config.profitTarget
                           ELSE IF outcome[market] # "null" THEN LostExitPrice
                           ELSE config.profitTarget,
                        DateNow, "MARKET_RESOLVED")

bt_closePositionAtExpiry(e, market) ==
    IF e.position = NoPosition THEN e
    ELSE LET exitPrice == IF outcome[market] = e.position.side THEN config.profitTarget
                          ELSE IF outcome[market] # "null" THEN LostExitPrice
                          ELSE config.profitTarget
         IN bt_executeExit(e, exitPrice, endDate[market], "MARKET_RESOLVED")

-----------------------------------------------------------------------------
(* BacktestEngine: ladder mode *)

\* variant of the lock test that never finds a lock
bt_isLadderMarketLocked_never(e, marketSlug) == FALSE

bt_isLadderMarketLocked(e, marketSlug) == marketSlug \in e.ladderMarketLocks

bt_getOpenLadderShares(ls) == Max(0, ls.totalShares - ls.totalSharesSold)

\* index (0-based) getActiveStep leaves in currentStepIndex: the first index from
\* `i` on whose step is enabled, not completed and not skipped; Len(steps) if none
RECURSIVE bt_activeIndex(_, _, _)
bt_activeIndex(ls, steps, i) ==
    IF i >= Len(steps) THEN i
    ELSE IF ~steps[i + 1].enabled THEN bt_activeIndex(ls, steps, i + 1)
    ELSE IF InSeq(steps[i + 1].id, ls.completedSteps) THEN bt_activeIndex(ls, steps, i + 1)
    ELSE IF InSeq(steps[i + 1].id, ls.skippedSteps) THEN bt_activeIndex(ls, steps, i + 1)
    ELSE i

\* getActiveStep: the ladder state with currentStepIndex advanced
bt_getActiveStep(ls, steps) ==
    [ls EXCEPT !.currentStepIndex = bt_activeIndex(ls, steps, ls.currentStepIndex)]

\* the last enabled step's index (0-based), -1 if none
bt_lastEnabledIndex(steps) ==
    IF \E i \in 1..Len(steps) : steps[i].enabled
    THEN (CHOOSE i \in 1..Len(steps) :
             steps[i].enabled /\ \A j \in (i + 1)..Len(steps) : ~steps[j].enabled) - 1
    ELSE 0 - 1

\* getActiveStopLossStep: index (0-based) of the step whose stop-loss is active, -1 if none
bt_getActiveStopLossStep(ls, steps) ==
    LET i == bt_activeIndex(ls, steps, ls.currentStepIndex)
    IN IF i < Len(steps) THEN i ELSE bt_lastEnabledIndex(steps)

\* steps.find(s => s.enabled): index (0-based) of the first enabled step, -1 if none
bt_firstEnabledIndex(steps) ==
    IF \E i \in 1..Len(steps) : steps[i].enabled
    THEN (CHOOSE i \in 1..Len(steps) :
             steps[i].enabled /\ \A j \in 1..(i - 1) : ~steps[j].enabled) - 1
    ELSE 0 - 1

\* variant of skipLadderStep that records no reason
bt_skipLadderStep_noReason(ls, stepId, reason) ==
    [ls EXCEPT !.skippedSteps = Append(@, stepId)]

bt_skipLadderStep(ls, stepId, reason) ==
    [ls EXCEPT !.skippedSteps = Append(@, stepId),
               !.skippedReasons = Append(@, <<stepId, reason>>)]

\* variant of calculateStepSize whose buys take the whole balance
bt_calculateStepSize_all(side, stepConfig, ls, availableBalance, currentPrice) ==
    IF side = "buy" THEN availableBalance
    ELSE IF stepConfig.sizeType = "percent"
    THEN ((ls.totalShares - ls.totalSharesSold) * stepConfig.sizeValue) \div 100
    ELSE Min(SharesFor(stepConfig.sizeValue, currentPrice),
             ls.totalShares - ls.totalSharesSold)

bt_calculateStepSize(side, stepConfig, ls, availableBalance, currentPrice) ==
    IF side = "buy"
    THEN IF stepConfig.sizeType = "percent"
         THEN (availableBalance * stepConfig.sizeValue) \div 100
         ELSE Min(stepConfig.sizeValue, availableBalance)
    ELSE LET remainingShares == ls.totalShares - ls.totalSharesSold
         IN IF stepConfig.sizeType = "percent"
            THEN (remainingShares * stepConfig.sizeValue) \div 100
            ELSE Min(SharesFor(stepConfig.sizeValue, currentPrice), remainingShares)

bt_initializeLadderState(tokenId, side, marketSlug) ==
    [NoLadder EXCEPT !.tokenId = tokenId, !.side = side, !.marketSlug = marketSlug,
                     !.ladderStartTime = DateNow, !.lastStepTime = DateNow,
                     !.status = "active"]

\* variant of the reset that keeps the step bookkeeping and the recovery flag
bt_resetLadderState_partial(ls) ==
    [ls EXCEPT !.currentStepIndex = 0, !.currentStepPhase = "buy",
               !.totalShares = 0, !.totalCostBasis = 0, !.averageEntryPrice = 0,
               !.totalSharesSold = 0, !.totalSellProceeds = 0,
               !.lastStepTime = DateNow, !.lastStepPrice = 0, !.status = "active"]

bt_resetLadderState(ls) ==
    [ls EXCEPT !.currentStepIndex = 0, !.currentStepPhase = "buy",
               !.completedSteps = << >>, !.skippedSteps = << >>,
               !.skippedReasons = << >>,
               !.totalShares = 0, !.totalCostBasis = 0, !.averageEntryPrice = 0,
               !.totalSharesSold = 0, !.totalSellProceeds = 0,
               !.lastStepTime = DateNow, !.lastStepPrice = 0,
               !.needsRecovery = TRUE, !.status = "active"]

bt_recordLadderTrade(e, trade) ==
    [e EXCEPT !.trades = Append(@, trade),
              !.lastTrade = trade,
              !.equityCurve = Append(@, [timestamp |-> trade.exitTimestamp,
                                         balance |-> e.balance]),
              !.peakBalance = Max(@, e.balance)]

bt_executeLadderBuyStep(e, tick, step) ==
    LET ls == e.ladderState
        buyAmount == bt_calculateStepSize("buy", step.buy, ls, e.balance, tick.bestAsk)
        entryPrice == Min((tick.bestAsk * (1000 + config.slippage)) \div 1000, MaxFillPrice)
        shares == SharesFor(buyAmount, entryPrice)
    IN IF InSeq(step.id, ls.completedSteps) \/ InSeq(step.id, ls.skippedSteps) THEN e
       ELSE IF buyAmount < MinBuyAmount
       THEN [e EXCEPT !.ladderState =
                [bt_skipLadderStep(ls, step.id, "insufficient_balance")
                    EXCEPT !.currentStepIndex = @ + 1, !.currentStepPhase = "buy"]]
       ELSE [e EXCEPT !.ladderState =
                [ls EXCEPT !.totalShares = @ + shares,
                           !.totalCostBasis = @ + buyAmount,
                           !.averageEntryPrice =
                               Div((ls.totalCostBasis + buyAmount) * 100, ls.totalShares + shares),
                           !.lastStepTime = tick.timestamp,
                           !.lastStepPrice = tick.bestAsk,
                           !.currentStepPhase = "sell"],
                      !.balance = @ - buyAmount]

\* variant of executeLadderSellStep that keeps the aggregates of the cycle
\* when the last shares are sold
bt_executeLadderSellStep_noReset(e, tick, step) ==
    LET ls == e.ladderState
        remainingShares == ls.totalShares - ls.totalSharesSold
        sellShares == bt_calculateStepSize("sell", step.sell, ls, 0, tick.bestBid)
        actualSellShares == Min(sellShares, remainingShares)
        proceeds == Proceeds(actualSellShares, tick.bestBid)
        costBasisPortion == IF ls.totalShares > 0
                            THEN (actualSellShares * ls.totalCostBasis) \div ls.totalShares
                            ELSE 0
        trade == [marketSlug |-> ls.marketSlug, tokenId |-> ls.tokenId, side |-> ls.side,
                  entryPrice |-> ls.averageEntryPrice, exitPrice |-> tick.bestBid,
                  shares |-> actualSellShares, entryTimestamp |-> ls.lastStepTime,
                  exitTimestamp |-> tick.timestamp, exitReason |-> "LADDER_STEP_SELL",
                  pnl |-> proceeds - costBasisPortion, ladderStepId |-> step.id]
        sold == [ls EXCEPT !.totalSharesSold = @ + actualSellShares,
                           !.totalSellProceeds = @ + proceeds,
                           !.completedSteps = Append(@, step.id),
                           !.currentStepIndex = @ + 1,
                           !.currentStepPhase = "buy",
                           !.lastStepTime = tick.timestamp,
                           !.lastStepPrice = tick.bestBid]
    IN IF InSeq(step.id, ls.completedSteps) \/ InSeq(step.id, ls.skippedSteps) THEN e
       ELSE IF sellShares < DustShares \/ remainingShares < DustShares
       THEN [e EXCEPT !.ladderState =
                [bt_skipLadderStep(ls, step.id, "insufficient_shares")
                    EXCEPT !.currentStepIndex = @ + 1, !.currentStepPhase = "buy"]]
       ELSE bt_checkCompoundLimit(
                [bt_recordLadderTrade([e EXCEPT !.balance = @ + proceeds], trade)
                    EXCEPT !.ladderState = sold])

\* variant of executeLadderSellStep whose trade carries the whole cost basis
bt_executeLadderSellStep_wholeCost(e, tick, step) ==
    LET ls == e.ladderState
        shares == Min(bt_calculateStepSize("sell", step.sell, ls, 0, tick.bestBid),
                      ls.totalShares - ls.totalSharesSold)
        proceeds == Proceeds(shares, tick.bestBid)
        trade == [marketSlug |-> ls.marketSlug, tokenId |-> ls.tokenId, side |-> ls.side,
                  entryPrice |-> ls.averageEntryPrice, exitPrice |-> tick.bestBid,
                  shares |-> shares, entryTimestamp |-> ls.lastStepTime,
                  exitTimestamp |-> tick.timestamp, exitReason |-> "LADDER_STEP_SELL",
                  pnl |-> proceeds - ls.totalCostBasis, ladderStepId |-> step.id]
    IN [bt_recordLadderTrade([e EXCEPT !.balance = @ + proceeds], trade)
          EXCEPT !.ladderState =
             [ls EXCEPT !.totalSharesSold = @ + shares,
                        !.totalSellProceeds = @ + proceeds,
                        !.completedSteps = Append(@, step.id),
                        !.currentStepIndex = @ + 1,
                        !.currentStepPhase = "buy",
                        !.lastStepTime = tick.timestamp,
                        !.lastStepPrice = tick.bestBid]]

bt_executeLadderSellStep(e, tick, step) ==
    LET ls == e.ladderState
        remainingShares == ls.totalShares - ls.totalSharesSold
        sellShares == bt_calculateStepSize("sell", step.sell, ls, 0, tick.bestBid)
        actualSellShares == Min(sellShares, remainingShares)
        proceeds == Proceeds(actualSellShares, tick.bestBid)
        costBasisPortion == IF ls.totalShares > 0
                            THEN (actualSellShares * ls.totalCostBasis) \div ls.totalShares
                            ELSE 0
        trade == [marketSlug |-> ls.marketSlug, tokenId |-> ls.tokenId, side |-> ls.side,
                  entryPrice |-> ls.averageEntryPrice, exitPrice |-> tick.bestBid,
                  shares |-> actualSellShares, entryTimestamp |-> ls.lastStepTime,
                  exitTimestamp |-> tick.timestamp, exitReason |-> "LADDER_STEP_SELL",
                  pnl |-> proceeds - costBasisPortion, ladderStepId |-> step.id]
        sold == [ls EXCEPT !.totalSharesSold = @ + actualSellShares,
                           !.totalSellProceeds = @ + proceeds,
                           !.completedSteps = Append(@, step.id),
                           !.currentStepIndex = @ + 1,
                           !.currentStepPhase = "buy",
                           !.lastStepTime = tick.timestamp,
                           !.lastStepPrice = tick.bestBid]
        after == IF sold.totalShares - sold.totalSharesSold < DustShares
                 THEN [sold EXCEPT !.totalShares = 0, !.totalCostBasis = 0,
                                   !.averageEntryPrice = 0, !.totalSharesSold = 0,
                                   !.totalSellProceeds = 0]
                 ELSE sold
    IN IF InSeq(step.id, ls.completedSteps) \/ InSeq(step.id, ls.skippedSteps) THEN e
       ELSE IF sellShares < DustShares \/ remainingShares < DustShares
       THEN [e EXCEPT !.ladderState =
                [bt_skipLadderStep(ls, step.id, "insufficient_shares")
                    EXCEPT !.currentStepIndex = @ + 1, !.currentStepPhase = "buy"]]
       ELSE bt_checkCompoundLimit(
                [bt_recordLadderTrade([e EXCEPT !.balance = @ + proceeds], trade)
                    EXCEPT !.ladderState = after])

bt_executeLadderStopLoss(e, tick, step) ==
    LET ls == e.ladderState
        openShares == bt_getOpenLadderShares(ls)
        exitPrice == Max((tick.bestBid * (1000 - config.slippage)) \div 1000, LostExitPrice)
        proceeds == Proceeds(openShares, exitPrice)
        costBasisPortion == IF ls.totalShares > 0
                            THEN (openShares * ls.totalCostBasis) \div ls.totalShares
                            ELSE 0
        trade == [marketSlug |-> ls.marketSlug, tokenId |-> ls.tokenId, side |-> ls.side,
                  entryPrice |-> ls.averageEntryPrice, exitPrice |-> exitPrice,
                  shares |-> openShares, entryTimestamp |-> ls.lastStepTime,
                  exitTimestamp |-> tick.timestamp, exitReason |-> "LADDER_STOP_LOSS",
                  pnl |-> proceeds - costBasisPortion, ladderStepId |-> step.id]
        sold == [ls EXCEPT !.totalSharesSold = @ + openShares,
                           !.totalSellProceeds = @ + proceeds]
    IN IF openShares < DustShares
       THEN [e EXCEPT !.ladderMarketLocks = @ \ {ls.marketSlug},
                      !.ladderState = bt_resetLadderState(ls)]
       ELSE LET e1 == bt_checkCompoundLimit(
                         bt_recordLadderTrade([e EXCEPT !.balance = @ + proceeds], trade))
            IN [e1 EXCEPT !.ladderMarketLocks = @ \ {ls.marketSlug},
                          !.ladderState = bt_resetLadderState(sold)]

bt_closeLadderAtExpiry(e, market) ==
    IF e.ladderState = NoLadder THEN e
    ELSE
    LET ls == e.ladderState
        remainingShares == ls.totalShares - ls.totalSharesSold
        exitPrice == IF outcome[market] = ls.side THEN config.profitTarget
                     ELSE IF outcome[market] # "null" THEN LostExitPrice
                     ELSE config.profitTarget
        proceeds == Proceeds(remainingShares, exitPrice)
        costBasisPortion == IF ls.totalShares > 0
                            THEN (remainingShares * ls.totalCostBasis) \div ls.totalShares
                            ELSE 0
        trade == [marketSlug |-> ls.marketSlug, tokenId |-> ls.tokenId, side |-> ls.side,
                  entryPrice |-> ls.averageEntryPrice, exitPrice |-> exitPrice,
                  shares |-> remainingShares, entryTimestamp |-> ls.lastStepTime,
                  exitTimestamp |-> endDate[market], exitReason |-> "MARKET_RESOLVED",
                  pnl |-> proceeds - costBasisPortion, ladderStepId |-> "null"]
    IN IF remainingShares < DustShares
       THEN [e EXCEPT !.ladderState = NoLadder]
       ELSE [bt_checkCompoundLimit(
                bt_recordLadderTrade([e EXCEPT !.balance = @ + proceeds], trade))
                EXCEPT !.ladderState = NoLadder]

\* variant of the recovery test that a tick at the trigger passes
bt_recovered_atTrigger(tick, ladderSteps) ==
    /\ bt_firstEnabledIndex(ladderSteps) >= 0
    /\ tick.bestAsk > 0
    /\ tick.bestAsk >= ladderSteps[bt_firstEnabledIndex(ladderSteps) + 1].buy.triggerPrice

\* the recovery test: the ask is back above the first enabled step's buy trigger
bt_recovered(tick, ladderSteps) ==
    /\ bt_firstEnabledIndex(ladderSteps) >= 0
    /\ tick.bestAsk > 0
    /\ tick.bestAsk > ladderSteps[bt_firstEnabledIndex(ladderSteps) + 1].buy.triggerPrice

bt_processLadderStateTick(e, tick, ladderSteps) ==
    IF e.ladderState = NoLadder THEN e
    ELSE
    LET ls == e.ladderState
        hasShares == bt_getOpenLadderShares(ls) > DustShares
        sl == bt_getActiveStopLossStep(ls, ladderSteps)
        \* recovery gate passed: the ladder state the step logic continues with
        released == IF ls.needsRecovery
                    THEN [ls EXCEPT !.needsRecovery = FALSE, !.lastStepTime = tick.timestamp]
                    ELSE ls
        stepped == bt_getActiveStep(released, ladderSteps)
        idx == stepped.currentStepIndex
        e2 == [e EXCEPT !.ladderState = stepped]
    IN IF hasShares /\ sl >= 0 /\ tick.bestBid > 0
          /\ tick.bestBid <= ladderSteps[sl + 1].stopLoss
       THEN bt_executeLadderStopLoss(e, tick, ladderSteps[sl + 1])
       ELSE IF ls.status # "active" THEN e
       ELSE IF ls.needsRecovery /\ ~bt_recovered(tick, ladderSteps) THEN e
       ELSE IF idx >= Len(ladderSteps)
       THEN IF stepped.totalShares - stepped.totalSharesSold < DustShares
            THEN [e EXCEPT !.ladderState = NoLadder,
                           !.ladderMarketLocks = @ \cup {ls.marketSlug}]
            ELSE [e EXCEPT !.ladderState = [stepped EXCEPT !.status = "completed"],
                           !.ladderMarketLocks = @ \cup {ls.marketSlug}]
       ELSE IF stepped.currentStepPhase = "buy"
       THEN IF tick.bestAsk > 0 /\ tick.bestAsk <= ladderSteps[idx + 1].buy.triggerPrice
            THEN bt_executeLadderBuyStep(e2, tick, ladderSteps[idx + 1])
            ELSE e2
       ELSE IF tick.bestBid > 0 /\ tick.bestBid >= ladderSteps[idx + 1].sell.triggerPrice
            THEN bt_executeLadderSellStep(e2, tick, ladderSteps[idx + 1])
            ELSE e2

bt_processLadderTick(e, tick, market) ==
    LET ladderSteps == config.ladderSteps
        timeRemaining == endDate[market] - tick.timestamp
        spread == tick.bestAsk - tick.bestBid
        askPrice == tick.bestAsk
        side == IF tick.tokenId = upTokenId[market] THEN "UP" ELSE "DOWN"
        first == bt_firstEnabledIndex(ladderSteps)
        ladderState == [bt_initializeLadderState(tick.tokenId, side, market)
                           EXCEPT !.lastStepPrice = askPrice,
                                  !.lastStepTime = tick.timestamp]
        e2 == [e EXCEPT !.ladderState = ladderState]
    IN IF Len(ladderSteps) = 0 THEN e
       ELSE IF e.ladderState # NoLadder
       THEN IF tick.tokenId # e.ladderState.tokenId THEN e
            ELSE bt_processLadderStateTick(e, tick, ladderSteps)
       ELSE IF e.balance < MinBuyAmount THEN e
       ELSE IF bt_isLadderMarketLocked(e, market) THEN e
       ELSE IF timeRemaining <= 0 \/ timeRemaining > config.timeWindowMs THEN e
       ELSE IF spread > config.maxSpread THEN e
       ELSE IF askPrice < config.entryThreshold \/ askPrice > config.maxEntryPrice THEN e
       ELSE IF /\ e.lastTrade # NoTrade
               /\ e.lastTrade.marketSlug = market
               /\ e.lastTrade.side = side
               /\ e.lastTrade.pnl > 0 THEN e
       ELSE IF first < 0 THEN e
       ELSE IF askPrice < ladderSteps[first + 1].buy.triggerPrice THEN e
       ELSE IF Abs(askPrice - ladderSteps[first + 1].buy.triggerPrice) <= PriceTolerance
       THEN bt_executeLadderBuyStep(e2, tick, ladderSteps[first + 1])
       ELSE e2

\* variant of processTick whose take-profit exits at the tick's bid
bt_processTick_atBid(e, tick, market) ==
    IF config.riskMode = "ladder" THEN bt_processLadderTick(e, tick, market)
    ELSE IF e.position # NoPosition /\ e.position.tokenId = tick.tokenId
    THEN IF tick.bestBid >= config.profitTarget
         THEN bt_executeExit(e, tick.bestBid, tick.timestamp, "PROFIT_TARGET")
         ELSE bt_checkStopLoss(e, tick)
    ELSE IF e.position = NoPosition /\ e.balance >= MinBuyAmount
    THEN bt_checkEntry(e, tick, market)
    ELSE e

bt_processTick(e, tick, market) ==
    IF config.riskMode = "ladder" THEN bt_processLadderTick(e, tick, market)
    ELSE IF e.position # NoPosition /\ e.position.tokenId = tick.tokenId
    THEN IF tick.bestBid >= config.profitTarget
         THEN bt_executeExit(e, config.profitTarget, tick.timestamp, "PROFIT_TARGET")
         ELSE bt_checkStopLoss(e, tick)
    ELSE IF e.position = NoPosition /\ e.balance >= MinBuyAmount
    THEN bt_checkEntry(e, tick, market)
    ELSE e

-----------------------------------------------------------------------------
(* BacktestEngine.run: one loop iteration per tick of the sorted list *)

\* variant of the expiry closes that closes nothing
bt_expireHeld_none(e, expired, tick) == <<e, expired>>

\* the expiry closes that precede the processing of `tick`: <<engine, expiredMarkets>>
bt_expireHeld(e, expired, tick) ==
    LET pm == e.position.marketSlug
        closeP == e.position # NoPosition /\ pm \notin expired
                  /\ tick.timestamp >= endDate[pm]
        e1 == IF closeP THEN bt_closePositionAtExpiry(e, pm) ELSE e
        x1 == IF closeP THEN expired \cup {pm} ELSE expired
        lm == e1.ladderState.marketSlug
        closeL == e1.ladderState # NoLadder /\ lm \notin x1
                  /\ tick.timestamp >= endDate[lm]
        e2 == IF closeL THEN bt_closeLadderAtExpiry(e1, lm) ELSE e1
        x2 == IF closeL THEN x1 \cup {lm} ELSE x1
    IN <<e2, x2>>

\* the closes of a tick whose own market has expired
bt_expirePosition(e, market) ==
    IF e.position # NoPosition /\ e.position.marketSlug = market
    THEN bt_closePositionAtExpiry(e, market) ELSE e
bt_expireLadder(e, market) ==
    IF e.ladderState # NoLadder /\ e.ladderState.marketSlug = market
    THEN bt_closeLadderAtExpiry(e, market) ELSE e

\* the loop body after the expiry closes `held` of the held markets
bt_afterExpireHeld(held, tick) ==
    IF tick.marketSlug \in held[2] THEN held
    ELSE IF tick.timestamp >= endDate[tick.marketSlug]
    THEN <<bt_expireLadder(bt_expirePosition(held[1], tick.marketSlug), tick.marketSlug),
           held[2] \cup {tick.marketSlug}>>
    ELSE <<bt_processTick(held[1], tick, tick.marketSlug), held[2]>>

\* the body of the loop over allTicks: <<engine, expiredMarkets>>
bt_runTick(e, expired, tick) ==
    bt_afterExpireHeld(bt_expireHeld(e, expired, tick), tick)

\* the live engine's variables while the replay runs
LiveIdle == [idle |-> TRUE]

InitReplay ==
    /\ config \in ReplayConfigs
    /\ engine = [balance |-> config.startingBalance, savedProfit |-> 0,
                 position |-> NoPosition, ladderState |-> NoLadder,
                 ladderMarketLocks |-> {}, trades |-> << >>, equityCurve |-> << >>,
                 peakBalance |-> config.startingBalance, lastTrade |-> NoTrade]
    /\ run = [now |-> 0, expiredMarkets |-> {}, tick |-> NoTick, phase |-> "loop"]
    /\ state = LiveIdle /\ ex = LiveIdle /\ tasks = LiveIdle /\ hist = LiveIdle

\* one iteration: the next tick of the chronologically sorted list
Iterate(r, tick) ==
    /\ engine' = r[1]
    /\ run' = [run EXCEPT !.now = tick.timestamp, !.expiredMarkets = r[2], !.tick = tick]

RunTick ==
    /\ run.phase = "loop"
    /\ run.now < MaxTime
    /\ \E tok \in ReplayTokens, q \in Quotes :
          LET tick == [timestamp |-> run.now + 1, tokenId |-> tok,
                       marketSlug |-> marketOf[tok], bestBid |-> q[1], bestAsk |-> q[2]]
          IN Iterate(bt_runTick(engine, run.expiredMarkets, tick), tick)
    /\ UNCHANGED <<config, state, ex, tasks, hist>>

\* variant of the end of the run that closes nothing
Finish_leaveOpen ==
    /\ run.phase = "loop"
    /\ run' = [run EXCEPT !.phase = "done"]
    /\ UNCHANGED <<config, engine, state, ex, tasks, hist>>

\* after the loop: force close what is still open
Finish ==
    /\ run.phase = "loop"
    /\ LET e1 == IF engine.position # NoPosition
                 THEN bt_closePositionAtExpiry(engine, engine.position.marketSlug)
                 ELSE engine
           e2 == IF e1.ladderState # NoLadder
                 THEN bt_closeLadderAtExpiry(e1, e1.ladderState.marketSlug)
                 ELSE e1
       IN engine' = e2
    /\ run' = [run EXCEPT !.phase = "done"]
    /\ UNCHANGED <<config, state, ex, tasks, hist>>

NextReplay == RunTick \/ Finish

SpecReplay == InitReplay /\ [][NextReplay]_vars

-----------------------------------------------------------------------------
(* Replay: properties of the ladder lifecycle *)

\* a step of the replay that processed a tick (RunTick)
TickStep == run'.phase = "loop" /\ run'.now = run.now + 1

\* the indices (1-based) of the enabled steps not yet completed or skipped
OpenSteps(ls, steps) ==
    {i \in 1..Len(steps) : /\ steps[i].enabled
                           /\ ~InSeq(steps[i].id, ls.completedSteps)
                           /\ ~InSeq(steps[i].id, ls.skippedSteps)}

EnabledSteps(steps) == {i \in 1..Len(steps) : steps[i].enabled}

\* the currently active step: the next step not yet completed or skipped, or the
\* last enabled step if none is left
ActiveStep(ls, steps) ==
    IF OpenSteps(ls, steps) # {}
    THEN steps[CHOOSE i \in OpenSteps(ls, steps) : \A j \in OpenSteps(ls, steps) : i <= j]
    ELSE steps[CHOOSE i \in EnabledSteps(steps) : \A j \in EnabledSteps(steps) : j <= i]

\* the first enabled step of the configured ladder
FirstEnabledStep ==
    config.ladderSteps[CHOOSE i \in EnabledSteps(config.ladderSteps) :
                          \A j \in EnabledSteps(config.ladderSteps) : i <= j]

\* the ladder holds unsold shares and the tick about to be processed is one of
\* its token, before its market's end, with a usable bid at or below the active
\* step's stop-loss
C8_Breach ==
    /\ TickStep
    /\ config.riskMode = "ladder"
    /\ engine.ladderState # NoLadder
    /\ run'.tick.tokenId = engine.ladderState.tokenId
    /\ run'.tick.timestamp < endDate[engine.ladderState.marketSlug]
    /\ engine.ladderState.totalShares - engine.ladderState.totalSharesSold > DustShares
    /\ run'.tick.bestBid > 0
    /\ run'.tick.bestBid <= ActiveStep(engine.ladderState, config.ladderSteps).stopLoss

C8_SoldAndReset ==
    LET before == engine.ladderState
        after == engine'.ladderState
        n == Len(engine'.trades)
    IN /\ n = Len(engine.trades) + 1
       /\ SubSeq(engine'.trades, 1, n - 1) = engine.trades
       /\ engine'.trades[n].exitReason = "LADDER_STOP_LOSS"
       /\ engine'.trades[n].tokenId = before.tokenId
       /\ engine'.trades[n].shares = before.totalShares - before.totalSharesSold
       /\ after # NoLadder
       /\ after.tokenId = before.tokenId
       /\ after.currentStepIndex = 0
       /\ after.currentStepPhase = "buy"
       /\ after.completedSteps = << >>
       /\ after.skippedSteps = << >>
       /\ after.totalShares = 0
       /\ after.totalCostBasis = 0
       /\ after.averageEntryPrice = 0
       /\ after.totalSharesSold = 0
       /\ after.totalSellProceeds = 0
       /\ after.needsRecovery

\* C8: whenever a ladder holds unsold shares and a tick of its token (before the
\* market's end, with a usable bid) has its bid at or below the stop-loss of the
\* currently active step, that tick sells all remaining shares whatever the
\* phase, records exactly one trade with the step stop-loss reason, and leaves
\* the ladder with step index 0, phase buy, empty completed and skipped sets,
\* zero aggregates and needsRecovery true.
C8_StepStopLoss == [][C8_Breach => C8_SoldAndReset]_vars

\* a step stop-loss has just acted on a ladder that had completed a step
C8_Witness ==
    /\ run.phase = "loop"
    /\ engine.ladderState # NoLadder
    /\ engine.ladderState.needsRecovery
    /\ Len(engine.trades) >= 2
    /\ engine.trades[Len(engine.trades)].exitReason = "LADDER_STOP_LOSS"
    /\ engine.trades[Len(engine.trades)].exitTimestamp = run.tick.timestamp
    /\ engine.trades[Len(engine.trades)].shares > DustShares
    /\ run.tick.bestBid <= 400

\* a tick processed while no ladder is resident, in ladder mode
C10_EntryTick ==
    /\ TickStep
    /\ config.riskMode = "ladder"
    /\ engine.ladderState = NoLadder

LadderBought ==
    /\ engine'.ladderState.tokenId = engine.ladderState.tokenId
    /\ engine'.ladderState.totalShares > engine.ladderState.totalShares

\* C7: while a ladder that a step stop-loss has reset needs recovery, no tick
\* makes it buy; needsRecovery is cleared only by a tick of the ladder's token
\* whose ask is strictly above the first enabled step's buy trigger, and every
\* other tick leaves it true (or finds the ladder's market expired and the
\* ladder closed), even when its ask meets a step's buy trigger
C7_RecoveryGate ==
    [][TickStep /\ engine.ladderState # NoLadder /\ engine.ladderState.needsRecovery
          => /\ ~LadderBought
             /\ (\/ run'.tick.tokenId # engine.ladderState.tokenId
                 \/ run'.tick.bestAsk <= FirstEnabledStep.buy.triggerPrice)
                   => \/ engine'.ladderState.tokenId # engine.ladderState.tokenId
                      \/ engine'.ladderState.needsRecovery]_vars

\* a ladder reset by a step stop-loss has since seen a tick of its token whose
\* ask meets the first step's buy trigger without exceeding it, and has not bought
C7_Witness ==
    /\ run.phase = "loop"
    /\ engine.ladderState # NoLadder
    /\ engine.ladderState.needsRecovery
    /\ engine.ladderState.totalShares = 0
    /\ engine.balance >= MinBuyAmount
    /\ run.tick.tokenId = engine.ladderState.tokenId
    /\ run.tick.timestamp < endDate[engine.ladderState.marketSlug]
    /\ run.tick.bestAsk > 0
    /\ run.tick.bestAsk <= FirstEnabledStep.buy.triggerPrice
    /\ Len(engine.trades) > 0
    /\ engine.trades[Len(engine.trades)].exitReason = "LADDER_STOP_LOSS"
    /\ engine.trades[Len(engine.trades)].exitTimestamp < run.tick.timestamp

-----------------------------------------------------------------------------
(* Bot (live engine): configuration, records, collaborators *)

\* number of orders (buys and sells, simulated ones included) of one live run
MaxOrders == 4
\* number of async calls (price callbacks, polling ticks) in flight at once
MaxTasks == 2

LiveTokens == {"m1up", "m2up"}
\* the markets that reach their end date during a live run
EndingMarkets == {"m1"}

\* the ladder of the live runs: the first step trades half of what is there
StepsLive == << Step("step1", 400, TRUE, 600, "percent", 50, 700, "percent", 50),
                Step("step2", 400, TRUE, 500, "percent", 100, 700, "percent", 100) >>

LiveConfigs ==
    {[c EXCEPT !.paperTrading = p] :
        c \in {BaseConfig, LadderConfig(StepsLive, 5)}, p \in BOOLEAN}

\* (bestBid, bestAsk) of the price updates and REST prices of a live run
NormalQuotes == { <<640, 650>>, <<390, 400>>, <<990, 995>>, <<0, 0>> }
LadderQuotes == { <<640, 650>>, <<700, 710>>, <<390, 400>>, <<480, 500>> }
LiveQuotes == IF config.riskMode = "ladder" THEN LadderQuotes ELSE NormalQuotes
\* the prices of each token: those of m1up stay above its exit triggers (its
\* market is the one that ends), those of m2up take every value
QuotesFor(tokenId) ==
    IF tokenId = "m2up" THEN LiveQuotes
    ELSE IF config.riskMode = "ladder" THEN { <<640, 650>>, <<480, 500>> }
    ELSE { <<640, 650>> }

isLadderMode == config.riskMode = "ladder"

\* whether a tick() runs while a price callback is in flight: in the runs of
\* normal mode and of paper trading it does, in the others it runs alone
tickOverlaps == ~isLadderMode \/ config.paperTrading

\* Position (an entry of state.positions); tradeId 0 stands for no position
NoPos ==
    [tradeId |-> 0, tokenId |-> "null", shares |-> 0, entryPrice |-> 0,
     side |-> "null", marketSlug |-> "null", isLadder |-> FALSE]

\* locals of a suspended async call
NoLoc ==
    [amt |-> 0, shares |-> 0, price |-> 0, step |-> 0, pos |-> NoPos,
     avail0 |-> 0, seq |-> 0, orphan |-> FALSE, ls |-> NoLadder]

\* what the run has seen of the stop-loss triggers of one token
NoEpisode == [open |-> FALSE, overlap |-> FALSE, sells |-> 0, sold |-> 0,
              closes |-> 0, updates |-> 0]

\* the world a handler runs in: Bot.state, the collaborators, the observations,
\* and the tokens whose ladder object it removed from state.ladderStates
World(s, x, h) == [s |-> s, x |-> x, h |-> h, del |-> {}]

\* how a handler returns: completed, suspended at an await of I/O, or thrown
Done(w) == [w |-> w, pc |-> "done", loc |-> NoLoc, thrown |-> FALSE]
Susp(w, pc, loc) == [w |-> w, pc |-> pc, loc |-> loc, thrown |-> FALSE]
Thrown(w) == [w |-> w, pc |-> "done", loc |-> NoLoc, thrown |-> TRUE]

\* serializeLadderState: the JSON text of the ladder's fields
serializeLadderState(ls) == [json |-> ls]

\* the ladder_state_json column of a trade without a persisted ladder
NoJson == [json |-> NoLadder]

\* db.insertTrade: appends an OPEN trade. The table is kept per token, and a
\* trade's id is its index among the trades of its token
insertTrade(w, marketSlug, tokenId, side, entryPrice, shares, costBasis, stepId) ==
    [w EXCEPT !.x.trades[tokenId] = Append(@,
        [market_slug |-> marketSlug, token_id |-> tokenId, side |-> side,
         entry_price |-> entryPrice, shares |-> shares, cost_basis |-> costBasis,
         status |-> "OPEN", exit_price |-> 0, pnl |-> 0, ladder_step |-> stepId,
         closes |-> 0, ladder_state_json |-> NoJson])]

\* db.closeTrade: UPDATE ... WHERE id; `closes` counts the updates of the row
closeTrade(w, tokenId, id, exitPrice, status) ==
    IF id < 1 \/ id > Len(w.x.trades[tokenId]) THEN w
    ELSE [w EXCEPT !.x.trades[tokenId][id] =
            [@ EXCEPT !.exit_price = exitPrice, !.status = status,
                      !.pnl = ((exitPrice - w.x.trades[tokenId][id].entry_price)
                                * w.x.trades[tokenId][id].shares) \div 100,
                      !.closes = @ + 1]]

\* db.getLastWinningTradeInMarket: a closed trade of that market and side with a profit
getLastWinningTradeInMarket(w, marketSlug, side) ==
    \E tok \in LiveTokens : \E i \in 1..Len(w.x.trades[tok]) :
        /\ w.x.trades[tok][i].market_slug = marketSlug
        /\ w.x.trades[tok][i].side = side
        /\ w.x.trades[tok][i].status # "OPEN"
        /\ w.x.trades[tok][i].pnl > 0

getAvailableBalance_unreserved(s) == Max(0, s.balance)
getAvailableBalance(s) == Max(0, s.balance - s.reservedBalance)

\* variant of checkCompoundLimit that assigns the excess as applyCompoundLimit does
checkCompoundLimit_assign(w) ==
    IF config.compoundLimit <= 0 THEN w
    ELSE IF w.s.balance > config.compoundLimit
    THEN [w EXCEPT !.s.savedProfit = w.s.balance - config.baseBalance,
                   !.s.balance = config.baseBalance]
    ELSE w

\* checkCompoundLimit (paper trading)
checkCompoundLimit(w) ==
    IF config.compoundLimit <= 0 THEN w
    ELSE IF w.s.balance > config.compoundLimit
    THEN [w EXCEPT !.s.savedProfit = @ + (w.s.balance - config.baseBalance),
                   !.s.balance = config.baseBalance]
    ELSE w

\* applyCompoundLimit (real trading): the balance follows the wallet
applyCompoundLimit(w, walletBalance) ==
    IF config.compoundLimit <= 0 THEN [w EXCEPT !.s.balance = walletBalance]
    ELSE IF walletBalance > config.compoundLimit
    THEN [w EXCEPT !.s.savedProfit = walletBalance - config.baseBalance,
                   !.s.balance = config.baseBalance]
    ELSE [w EXCEPT !.s.balance = walletBalance,
                   !.s.savedProfit = IF @ > 0 /\ walletBalance <= config.baseBalance
                                     THEN 0 ELSE @]

isLadderMarketLocked_never(w, marketSlug) == FALSE
isLadderMarketLocked(w, marketSlug) == marketSlug \in w.s.ladderMarketLocks
lockLadderMarket_noop(w, marketSlug) == w
lockLadderMarket(w, marketSlug) == [w EXCEPT !.s.ladderMarketLocks = @ \cup {marketSlug}]
clearLadderMarketLock(w, marketSlug) == [w EXCEPT !.s.ladderMarketLocks = @ \ {marketSlug}]

-----------------------------------------------------------------------------
(* Bot: the two mutex sets and the exits of normal mode *)

\* observation: one more order is placed (or simulated)
orderPlaced(w) == [w EXCEPT !.h.orders = @ + 1]

exitGuardHeld_never(s, tokenId) == FALSE
exitGuardHeld(s, tokenId) == tokenId \in s.pendingExits
entryGuardHeld(s, tokenId) == tokenId \in s.pendingEntries

releaseExit_leak(w, tokenId) == w
releaseExit(w, tokenId) == [w EXCEPT !.s.pendingExits = @ \ {tokenId}]
releaseEntry(w, tokenId) == [w EXCEPT !.s.pendingEntries = @ \ {tokenId}]

\* trader.marketSell fills only what the wallet holds of the token
canSell(w, tokenId, shares) == w.x.held[tokenId] >= shares
sellFilled(w, tokenId, shares, price) ==
    [w EXCEPT !.x.held[tokenId] = @ - shares,
              !.x.wallet = @ + Proceeds(shares, price)]

\* observation of the stop-loss triggers of a token (no effect on the Bot)
slBegin(w, tokenId) ==
    [w EXCEPT !.h.sl[tokenId] =
        IF @.open THEN [@ EXCEPT !.overlap = TRUE]
        ELSE [NoEpisode EXCEPT !.open = TRUE]]
slRejected(w, tokenId) ==
    [w EXCEPT !.h.sl[tokenId].overlap = @ \/ w.h.sl[tokenId].open]
slCount(w, tokenId, field) ==
    [w EXCEPT !.h.sl[tokenId] =
        CASE field = "sells" -> [@ EXCEPT !.sells = @ + 1]
          [] field = "sold" -> [@ EXCEPT !.sold = @ + 1]
          [] field = "closes" -> [@ EXCEPT !.closes = @ + 1]
          [] OTHER -> [@ EXCEPT !.updates = @ + 1]]
slEnd(w, tokenId) == [w EXCEPT !.h.sl[tokenId].open = FALSE]

\* executeStopLoss, up to its first await
executeStopLoss(w, tokenId, position, currentBid) ==
    IF exitGuardHeld(w.s, tokenId) THEN Done(slRejected(w, tokenId))
    ELSE IF position.shares < DustShares
    THEN Done([closeTrade(w, tokenId, position.tradeId, 0, "RESOLVED")
                 EXCEPT !.s.positions[tokenId] = NoPos])
    ELSE
      LET w1 == slBegin([w EXCEPT !.s.pendingExits = @ \cup {tokenId}], tokenId) IN
      IF config.paperTrading
      THEN LET w2 == closeTrade(orderPlaced(w1), tokenId, position.tradeId, currentBid,
                                "STOPPED")
               w3 == [w2 EXCEPT !.s.positions[tokenId] = NoPos,
                                !.s.balance = @ + Proceeds(position.shares, currentBid)]
               w4 == slCount(slCount(w3, tokenId, "closes"), tokenId, "updates")
           IN Done(slEnd(releaseExit(checkCompoundLimit(w4), tokenId), tokenId))
      ELSE IF currentBid = 0
      THEN Done(slEnd(releaseExit(w1, tokenId), tokenId))
      ELSE Susp(slCount(orderPlaced(w1), tokenId, "sells"), "esl:sell",
                [NoLoc EXCEPT !.pos = position, !.price = currentBid])

\* executeStopLoss after trader.marketSell; out is what the call produced
executeStopLoss_sell(w, t, out) ==
    LET tokenId == t.tokenId
        position == t.loc.pos
    IN IF out = "ok"
       THEN LET w1 == sellFilled(w, tokenId, position.shares, t.loc.price)
                w2 == closeTrade(w1, tokenId, position.tradeId, t.loc.price, "STOPPED")
                w3 == [w2 EXCEPT !.s.positions[tokenId] = NoPos]
            IN Susp(slCount(slCount(w3, tokenId, "sold"), tokenId, "closes"),
                    "esl:bal", t.loc)
       ELSE Done(slEnd(releaseExit(w, tokenId), tokenId))

\* executeStopLoss after trader.getBalance
executeStopLoss_bal(w, t, out) ==
    LET w1 == IF out = "ok"
              THEN slCount([w EXCEPT !.s.balance = w.x.wallet], t.tokenId, "updates")
              ELSE w
    IN Done(slEnd(releaseExit(w1, t.tokenId), t.tokenId))

\* executeTakeProfit, up to its first await
executeTakeProfit(w, tokenId, position, currentBid) ==
    IF exitGuardHeld(w.s, tokenId) THEN Done(w)
    ELSE IF position.shares < DustShares
    THEN Done([closeTrade(w, tokenId, position.tradeId, 0, "RESOLVED")
                 EXCEPT !.s.positions[tokenId] = NoPos])
    ELSE
      LET w1 == [w EXCEPT !.s.pendingExits = @ \cup {tokenId}] IN
      IF config.paperTrading
      THEN LET w2 == closeTrade(orderPlaced(w1), tokenId, position.tradeId,
                                config.profitTarget, "RESOLVED")
               w3 == [w2 EXCEPT !.s.positions[tokenId] = NoPos,
                                !.s.balance = @ + Proceeds(position.shares, config.profitTarget)]
           IN Done(releaseExit(checkCompoundLimit(w3), tokenId))
      ELSE Susp(orderPlaced(w1), "etp:sell",
                [NoLoc EXCEPT !.pos = position, !.price = currentBid])

\* executeTakeProfit after trader.marketSell
executeTakeProfit_sell(w, t, out) ==
    LET tokenId == t.tokenId
        position == t.loc.pos
    IN IF out = "ok"
       THEN LET w1 == sellFilled(w, tokenId, position.shares, t.loc.price)
                w2 == closeTrade(w1, tokenId, position.tradeId, t.loc.price, "RESOLVED")
            IN Susp([w2 EXCEPT !.s.positions[tokenId] = NoPos], "etp:bal", t.loc)
       ELSE Done(releaseExit(w, tokenId))

\* executeTakeProfit after trader.getBalance
executeTakeProfit_bal(w, t, out) ==
    Done(releaseExit(IF out = "ok" THEN [w EXCEPT !.s.balance = w.x.wallet] ELSE w,
                     t.tokenId))

\* variant of checkStopLossRealtime that only notes the breach and leaves the
\* exit to a later observation
checkStopLossRealtime_later(w, tokenId, currentBid) == Done(w)

\* checkStopLossRealtime
checkStopLossRealtime(w, tokenId, currentBid) ==
    LET position == w.s.positions[tokenId] IN
    IF position = NoPos THEN Done(w)
    ELSE IF position.isLadder \/ w.s.ladderStates[tokenId] # NoLadder THEN Done(w)
    ELSE IF currentBid <= config.stopLoss
    THEN executeStopLoss(w, tokenId, position, currentBid)
    ELSE Done(w)

\* checkProfitTargetRealtime
checkProfitTargetRealtime(w, tokenId, currentBid) ==
    IF w.s.ladderStates[tokenId] # NoLadder THEN Done(w)
    ELSE IF w.s.positions[tokenId] = NoPos THEN Done(w)
    ELSE IF currentBid >= config.profitTarget
    THEN executeTakeProfit(w, tokenId, w.s.positions[tokenId], currentBid)
    ELSE Done(w)

-----------------------------------------------------------------------------
(* Bot: ladder helpers *)

liveSteps == config.ladderSteps
LS(w, tokenId) == w.s.ladderStates[tokenId]
setLS(w, tokenId, ls) == [w EXCEPT !.s.ladderStates[tokenId] = ls]
\* a write through a reference to a ladder object; `gone` says the object was
\* removed from state.ladderStates after the reference was taken
writeLS(w, tokenId, gone, ls) == IF gone THEN w ELSE setLS(w, tokenId, ls)

\* getActiveStep, getActiveStopLossStep, skipLadderStep, calculateStepSize,
\* resetLadderState and initializeLadderState of the Bot read as those of the
\* BacktestEngine
getActiveStep(ls, steps) == bt_getActiveStep(ls, steps)
getActiveStopLossStep(ls, steps) == bt_getActiveStopLossStep(ls, steps)
skipLadderStep(ls, stepId, reason) == bt_skipLadderStep(ls, stepId, reason)
calculateStepSize(side, stepConfig, ls, availableBalance, currentPrice) ==
    bt_calculateStepSize(side, stepConfig, ls, availableBalance, currentPrice)
resetLadderState(ls) == [bt_resetLadderState(ls) EXCEPT !.tradeIds = << >>]
initializeLadderState(tokenId, side, marketSlug) ==
    bt_initializeLadderState(tokenId, side, marketSlug)


\* db.updateLadderState: the JSON text is stored on the trade's row
updateLadderState(w, tokenId, tradeId, stateJson) ==
    IF tradeId < 1 \/ tradeId > Len(w.x.trades[tokenId]) THEN w
    ELSE [w EXCEPT !.x.trades[tokenId][tradeId].ladder_state_json = stateJson]

\* persistLadderState: nothing is written for a ladder without trade ids
RECURSIVE persistFrom(_, _, _, _, _)
persistFrom(w, tokenId, ids, i, stateJson) ==
    IF i > Len(ids) THEN w
    ELSE persistFrom(updateLadderState(w, tokenId, ids[i], stateJson), tokenId, ids,
                     i + 1, stateJson)
persistLadderState(w, tokenId, ladderState) ==
    IF Len(ladderState.tradeIds) = 0 THEN w
    ELSE persistFrom(w, tokenId, ladderState.tradeIds, 1, serializeLadderState(ladderState))

\* persistLadderState through a reference to a ladder object
persistLS(w, tokenId, gone) ==
    IF gone \/ LS(w, tokenId) = NoLadder THEN w
    ELSE persistLadderState(w, tokenId, LS(w, tokenId))

isOpenTrade(w, tokenId, id) ==
    id >= 1 /\ id <= Len(w.x.trades[tokenId]) /\ w.x.trades[tokenId][id].status = "OPEN"

\* getOpenLadderShares: the shares of the ladder's trades that are OPEN in the db
RECURSIVE openSharesFrom(_, _, _, _)
openSharesFrom(w, tokenId, ids, i) ==
    IF i > Len(ids) THEN 0
    ELSE (IF isOpenTrade(w, tokenId, ids[i]) THEN w.x.trades[tokenId][ids[i]].shares ELSE 0)
         + openSharesFrom(w, tokenId, ids, i + 1)
getOpenLadderShares(w, tokenId, ls) == openSharesFrom(w, tokenId, ls.tradeIds, 1)

\* closeAllOpenLadderTrades
RECURSIVE closeAllFrom(_, _, _, _, _, _)
closeAllFrom(w, tokenId, ids, i, exitPrice, status) ==
    IF i > Len(ids) THEN w
    ELSE closeAllFrom(IF isOpenTrade(w, tokenId, ids[i])
                      THEN closeTrade(w, tokenId, ids[i], exitPrice, status) ELSE w,
                      tokenId, ids, i + 1, exitPrice, status)
closeAllOpenLadderTrades(w, tokenId, exitPrice, status) ==
    setLS(closeAllFrom(w, tokenId, LS(w, tokenId).tradeIds, 1, exitPrice, status), tokenId,
          [LS(w, tokenId) EXCEPT !.tradeIds = << >>])

\* closeLadderTradesForSell: the loop over ladderState.tradeIds; acc is
\* [w, remainingToSell, remainingOpenTradeIds]
RECURSIVE closeForSellFrom(_, _, _, _, _, _, _)
closeForSellFrom(acc, tokenId, ids, i, exitPrice, status, stepId) ==
    IF i > Len(ids) THEN acc
    ELSE
      LET w == acc.w
          id == ids[i]
          trade == w.x.trades[tokenId][id]
          next ==
            IF ~isOpenTrade(w, tokenId, id) THEN acc
            ELSE IF acc.remainingToSell <= 0
            THEN [acc EXCEPT !.remainingOpenTradeIds = Append(@, id)]
            ELSE IF trade.shares <= acc.remainingToSell
            THEN [acc EXCEPT !.w = closeTrade(w, tokenId, id, exitPrice, status),
                             !.remainingToSell = @ - trade.shares]
            ELSE
              LET remainingShares == trade.shares - acc.remainingToSell
                  remainingCostBasis == Div(trade.cost_basis * remainingShares, trade.shares)
                  soldCostBasis == Div(trade.cost_basis * acc.remainingToSell, trade.shares)
                  w1 == [w EXCEPT !.x.trades[tokenId][id].shares = remainingShares,
                                  !.x.trades[tokenId][id].cost_basis = remainingCostBasis]
                  w2 == insertTrade(w1, trade.market_slug, trade.token_id, trade.side,
                                    trade.entry_price, acc.remainingToSell, soldCostBasis,
                                    stepId)
              IN [acc EXCEPT !.w = closeTrade(w2, tokenId, Len(w2.x.trades[tokenId]),
                                                  exitPrice, status),
                             !.remainingToSell = 0,
                             !.remainingOpenTradeIds = Append(@, id)]
      IN closeForSellFrom(next, tokenId, ids, i + 1, exitPrice, status, stepId)

\* the ladder keeps the ids of the trades that are still open
keepOpenTradeIds(acc, tokenId) ==
    setLS(acc.w, tokenId, [LS(acc.w, tokenId) EXCEPT !.tradeIds = acc.remainingOpenTradeIds])

closeLadderTradesForSell(w, tokenId, sellShares, exitPrice, status, stepId) ==
    keepOpenTradeIds(closeForSellFrom([w |-> w, remainingToSell |-> sellShares,
                                       remainingOpenTradeIds |-> << >>],
                                      tokenId, LS(w, tokenId).tradeIds, 1, exitPrice,
                                      status, stepId),
                     tokenId)

\* the Position of a ladder after a buy: updated in place, or created
ladderPositionAfterBuy(w, tokenId, tradeId) ==
    LET ls == LS(w, tokenId) IN
    [w EXCEPT !.s.positions[tokenId] =
        IF @ # NoPos
        THEN [@ EXCEPT !.shares = ls.totalShares, !.entryPrice = ls.averageEntryPrice,
                       !.isLadder = TRUE]
        ELSE [tradeId |-> tradeId, tokenId |-> tokenId, shares |-> ls.totalShares,
              entryPrice |-> ls.averageEntryPrice, side |-> ls.side,
              marketSlug |-> ls.marketSlug, isLadder |-> TRUE]]

\* the Position of a ladder after a sell: shrunk in place, deleted when empty
ladderPositionAfterSell(w, tokenId) ==
    LET ls == LS(w, tokenId)
        left == ls.totalShares - ls.totalSharesSold
    IN [w EXCEPT !.s.positions[tokenId] =
          IF @ = NoPos THEN @
          ELSE IF left < DustShares THEN NoPos
          ELSE [@ EXCEPT !.shares = left]]

\* observation of the step trades of a ladder since its last reset
stepEvent(w, tokenId, op, stepId) ==
    [w EXCEPT !.h.steps[tokenId] =
        Append(@, [op |-> op, step |-> stepId,
                   done |-> {LS(w, tokenId).completedSteps[i] :
                                i \in 1..Len(LS(w, tokenId).completedSteps)}
                            \cup {LS(w, tokenId).skippedSteps[i] :
                                i \in 1..Len(LS(w, tokenId).skippedSteps)},
                   recovery |-> LS(w, tokenId).needsRecovery])]
stepsCleared(w, tokenId) == [w EXCEPT !.h.steps[tokenId] = << >>]

-----------------------------------------------------------------------------
(* Bot: executeLadderBuyStep *)

\* skipLadderStep followed by the move to the next step
skipAndAdvance(ls, stepId, reason) ==
    [skipLadderStep(ls, stepId, reason)
        EXCEPT !.currentStepIndex = @ + 1, !.currentStepPhase = "buy"]

\* a step is skipped: skipLadderStep, the move to the next step, and the
\* ladder persisted
ladderSkipped(w, tokenId, gone, stepId, reason) ==
    persistLS(writeLS(w, tokenId, gone, skipAndAdvance(LS(w, tokenId), stepId, reason)),
              tokenId, gone)

\* the end of executeLadderBuyStep after a buy: the move to the sell phase
toSellPhase(ls, askPrice) ==
    [ls EXCEPT !.currentStepPhase = "sell", !.lastStepTime = DateNow,
               !.lastStepPrice = askPrice]

\* the ladder's totals after a buy of `shares` for `cost`, its trade appended
afterBuy(ls, tradeId, shares, cost) ==
    [ls EXCEPT !.tradeIds = Append(@, tradeId),
               !.totalShares = @ + shares,
               !.totalCostBasis = @ + cost,
               !.averageEntryPrice = Div((ls.totalCostBasis + cost) * 100,
                                         ls.totalShares + shares)]

\* the bookkeeping of executeLadderBuyStep after a buy whose trade was just
\* inserted: the step event, the ladder's totals and the Position
ladderBought(w, tokenId, ls, shares, cost, stepId) ==
    ladderPositionAfterBuy(
        setLS(stepEvent(w, tokenId, "buy", stepId), tokenId,
              afterBuy(ls, Len(w.x.trades[tokenId]), shares, cost)),
        tokenId, Len(w.x.trades[tokenId]))

\* the ladder moves to the sell phase of its step
ladderToSell(w, tokenId, gone, askPrice) ==
    persistLS(writeLS(w, tokenId, gone, toSellPhase(LS(w, tokenId), askPrice)), tokenId, gone)

\* executeLadderBuyStep, up to its first await; step is the step's position in
\* the configured list
executeLadderBuyStep(w, tokenId, step, askPrice) ==
    LET ls == LS(w, tokenId)
        stepCfg == liveSteps[step]
        availableBalance == getAvailableBalance(w.s)
        buyAmount == calculateStepSize("buy", stepCfg.buy, ls, availableBalance, askPrice)
        estimatedShares == SharesFor(buyAmount, askPrice)
        w1 == [w EXCEPT !.s.pendingEntries = @ \cup {tokenId}]
    IN
    IF InSeq(stepCfg.id, ls.completedSteps) \/ InSeq(stepCfg.id, ls.skippedSteps)
    THEN Done(w)
    ELSE IF entryGuardHeld(w.s, tokenId) THEN Done(w)
    ELSE IF buyAmount < MinBuyAmount \/ estimatedShares < MIN_ORDER_SIZE
    THEN Done(releaseEntry(
            ladderSkipped(w1, tokenId, FALSE, stepCfg.id, "insufficient_balance"),
            tokenId))
    ELSE IF config.paperTrading
    THEN LET shares == (estimatedShares * (1000 - config.paperFeeRate)) \div 1000
         IN Done(releaseEntry(
                ladderToSell(
                    [ladderBought(insertTrade(orderPlaced(w1), ls.marketSlug, tokenId,
                                              ls.side, askPrice, shares, buyAmount,
                                              stepCfg.id),
                                  tokenId, ls, shares, buyAmount, stepCfg.id)
                        EXCEPT !.s.balance = @ - buyAmount],
                    tokenId, FALSE, askPrice),
                tokenId))
    ELSE Susp([orderPlaced(w1) EXCEPT !.s.reservedBalance = @ + buyAmount],
              "lbs:buy",
              [NoLoc EXCEPT !.amt = buyAmount, !.price = askPrice, !.step = step,
                            !.avail0 = availableBalance, !.seq = w.h.orders + 1])

\* the balance is synced with the wallet when trader.getBalance answered
syncBalance(w, out) == IF out = "ok" THEN [w EXCEPT !.s.balance = w.x.wallet] ELSE w

\* the finally blocks of executeLadderBuyStep
ladderBuyFinally(w, t) ==
    releaseEntry([w EXCEPT !.s.reservedBalance = @ - t.loc.amt], t.tokenId)

\* executeLadderBuyStep after trader.buy
executeLadderBuyStep_buy(w, t, out) ==
    LET ls == LS(w, t.tokenId)
        stepId == liveSteps[t.loc.step].id
    IN CASE out = "ok" -> Susp(w, "lbs:fill", t.loc)
         [] out = "null" ->
              Done(ladderBuyFinally(
                  ladderSkipped(w, t.tokenId, t.loc.orphan, stepId, "buy_failed"), t))
         [] OTHER -> Thrown(ladderBuyFinally(w, t))

\* trader.waitForFill fills the whole order at the asked price
buyFilled(w, tokenId, shares, price) ==
    [w EXCEPT !.x.held[tokenId] = @ + shares,
              !.x.wallet = @ - Proceeds(shares, price)]

\* executeLadderBuyStep after trader.waitForFill
executeLadderBuyStep_fill(w, t, out) ==
    LET tokenId == t.tokenId
        ls == LS(w, tokenId)
        stepId == liveSteps[t.loc.step].id
        actualShares == SharesFor(t.loc.amt, t.loc.price)
        actualCost == Proceeds(actualShares, t.loc.price)
    IN IF out = "none" THEN Susp(w, "lbs:cancel", t.loc)
       ELSE Susp(ladderBought(insertTrade(buyFilled(w, tokenId, actualShares, t.loc.price),
                                          ls.marketSlug, tokenId, ls.side, t.loc.price,
                                          actualShares, actualCost, stepId),
                              tokenId, ls, actualShares, actualCost, stepId),
                 "lbs:bal", t.loc)

\* executeLadderBuyStep after trader.cancelOrder
executeLadderBuyStep_cancel(w, t, out) ==
    Done(ladderBuyFinally(
        ladderSkipped(w, t.tokenId, t.loc.orphan, liveSteps[t.loc.step].id,
                      "order_not_filled"), t))

\* executeLadderBuyStep after trader.getBalance
executeLadderBuyStep_bal(w, t, out) ==
    IF out = "throw" THEN Thrown(ladderBuyFinally(w, t))
    ELSE Done(releaseEntry(
             ladderToSell([syncBalance(w, out) EXCEPT !.s.reservedBalance = @ - t.loc.amt],
                          t.tokenId, t.loc.orphan, t.loc.price),
             t.tokenId))

-----------------------------------------------------------------------------
(* Bot: executeLadderSellStep, executeLadderStopLoss, checkLadderStepRealtime *)

\* the ladder's totals after `shares` were sold at `price`
afterSell(ls, shares, price) ==
    [ls EXCEPT !.totalSharesSold = @ + shares,
               !.totalSellProceeds = @ + Proceeds(shares, price)]

\* the end of executeLadderSellStep: the step is completed, and the totals are
\* cleared when nothing is left
stepCompleted(ls, stepId, bidPrice) ==
    LET ls1 == [ls EXCEPT !.completedSteps = Append(@, stepId),
                          !.currentStepIndex = @ + 1,
                          !.currentStepPhase = "buy",
                          !.lastStepTime = DateNow,
                          !.lastStepPrice = bidPrice]
    IN IF ls1.totalShares - ls1.totalSharesSold < DustShares
       THEN [ls1 EXCEPT !.totalShares = 0, !.totalCostBasis = 0,
                        !.totalSharesSold = 0, !.totalSellProceeds = 0,
                        !.tradeIds = << >>]
       ELSE ls1

\* the ladder's totals grow by a sale
ladderSold(w, tokenId, shares, price) ==
    setLS(w, tokenId, afterSell(LS(w, tokenId), shares, price))

\* the step of the ladder is completed
ladderStepDone(w, tokenId, gone, stepId, bidPrice) ==
    persistLS(writeLS(w, tokenId, gone, stepCompleted(LS(w, tokenId), stepId, bidPrice)),
              tokenId, gone)

\* executeLadderSellStep, up to its first await
executeLadderSellStep(w, tokenId, step, bidPrice) ==
    LET ls == LS(w, tokenId)
        stepCfg == liveSteps[step]
        remainingShares == ls.totalShares - ls.totalSharesSold
        sellShares == calculateStepSize("sell", stepCfg.sell, ls, 0, bidPrice)
        actualSellShares == Min(sellShares, remainingShares)
        w1 == [w EXCEPT !.s.pendingExits = @ \cup {tokenId}]
    IN
    IF InSeq(stepCfg.id, ls.completedSteps) \/ InSeq(stepCfg.id, ls.skippedSteps)
    THEN Done(w)
    ELSE IF exitGuardHeld(w.s, tokenId) THEN Done(w)
    ELSE IF sellShares < DustShares \/ remainingShares < DustShares
    THEN Done(releaseExit(
            ladderSkipped(w1, tokenId, FALSE, stepCfg.id, "insufficient_shares"),
            tokenId))
    ELSE IF config.paperTrading
    THEN Done(releaseExit(
            ladderStepDone(
                checkCompoundLimit(ladderPositionAfterSell(
                    [ladderSold(stepEvent(closeLadderTradesForSell(
                                              orderPlaced(w1), tokenId, actualSellShares,
                                              bidPrice, "RESOLVED", stepCfg.id),
                                          tokenId, "sell", stepCfg.id),
                                tokenId, actualSellShares, bidPrice)
                        EXCEPT !.s.balance = @ + Proceeds(actualSellShares, bidPrice)],
                    tokenId)),
                tokenId, FALSE, stepCfg.id, bidPrice),
            tokenId))
    ELSE Susp(orderPlaced(w1), "lss:sell",
              [NoLoc EXCEPT !.shares = actualSellShares, !.price = bidPrice,
                            !.step = step])

\* executeLadderSellStep after trader.marketSell
executeLadderSellStep_sell(w, t, out) ==
    LET tokenId == t.tokenId
        stepId == liveSteps[t.loc.step].id
    IN CASE out = "ok" ->
              Susp(ladderPositionAfterSell(
                       closeLadderTradesForSell(
                           ladderSold(stepEvent(sellFilled(w, tokenId, t.loc.shares,
                                                           t.loc.price),
                                                tokenId, "sell", stepId),
                                      tokenId, t.loc.shares, t.loc.price),
                           tokenId, t.loc.shares, t.loc.price, "RESOLVED", stepId),
                       tokenId),
                   "lss:bal", t.loc)
         [] out = "null" ->
              Done(releaseExit(
                  ladderSkipped(w, tokenId, t.loc.orphan, stepId, "sell_failed"),
                  tokenId))
         [] OTHER -> Thrown(releaseExit(w, tokenId))

\* executeLadderSellStep after trader.getBalance
executeLadderSellStep_bal(w, t, out) ==
    IF out = "throw" THEN Thrown(releaseExit(w, t.tokenId))
    ELSE Done(releaseExit(
             ladderStepDone(syncBalance(w, out), t.tokenId, t.loc.orphan,
                            liveSteps[t.loc.step].id, t.loc.price),
             t.tokenId))

\* the end of executeLadderStopLoss: the market lock is cleared and the ladder reset
ladderResetAfterStop(w, tokenId, gone) ==
    IF gone THEN clearLadderMarketLock(w, marketOf[tokenId])
    ELSE persistLS(stepsCleared(setLS(clearLadderMarketLock(w, marketOf[tokenId]), tokenId,
                                      resetLadderState(LS(w, tokenId))),
                                tokenId),
                   tokenId, FALSE)

\* executeLadderStopLoss, up to its first await
executeLadderStopLoss(w, tokenId, currentBid) ==
    LET ls == LS(w, tokenId)
        openShares == getOpenLadderShares(w, tokenId, ls)
        remainingShares == ls.totalShares - ls.totalSharesSold
        sharesToSell == IF openShares > 0 THEN openShares ELSE remainingShares
        w1 == [w EXCEPT !.s.pendingExits = @ \cup {tokenId}]
    IN
    IF exitGuardHeld(w.s, tokenId) THEN Done(w)
    ELSE IF sharesToSell < DustShares
    THEN Done(releaseExit(ladderResetAfterStop(w1, tokenId, FALSE), tokenId))
    ELSE IF config.paperTrading
    THEN Done(releaseExit(
            ladderResetAfterStop(
                checkCompoundLimit(
                    [closeAllOpenLadderTrades(
                         [setLS(orderPlaced(w1), tokenId,
                                afterSell(ls, sharesToSell, currentBid))
                             EXCEPT !.s.balance = @ + Proceeds(sharesToSell, currentBid)],
                         tokenId, currentBid, "STOPPED")
                        EXCEPT !.s.positions[tokenId] = NoPos]),
                tokenId, FALSE),
            tokenId))
    ELSE Susp(orderPlaced(w1), "lsl:sell",
              [NoLoc EXCEPT !.shares = sharesToSell, !.price = currentBid])

\* executeLadderStopLoss after trader.marketSell
executeLadderStopLoss_sell(w, t, out) ==
    LET tokenId == t.tokenId IN
    CASE out = "ok" ->
           Susp([closeAllOpenLadderTrades(
                     ladderSold(sellFilled(w, tokenId, t.loc.shares, t.loc.price),
                                tokenId, t.loc.shares, t.loc.price),
                     tokenId, t.loc.price, "STOPPED")
                    EXCEPT !.s.positions[tokenId] = NoPos],
                "lsl:bal", t.loc)
      [] out = "null" -> Done(releaseExit(w, tokenId))
      [] OTHER -> Thrown(releaseExit(w, tokenId))

\* executeLadderStopLoss after trader.getBalance
executeLadderStopLoss_bal(w, t, out) ==
    IF out = "throw" THEN Thrown(releaseExit(w, t.tokenId))
    ELSE Done(releaseExit(ladderResetAfterStop(syncBalance(w, out), t.tokenId,
                                               t.loc.orphan),
                          t.tokenId))

\* checkLadderStepRealtime
checkLadderStepRealtime(w, tokenId, currentBid, currentAsk) ==
    LET ls == LS(w, tokenId)
        steps == liveSteps
        hasValidBid == currentBid > 0
        hasValidAsk == currentAsk > 0
        hasShares == ls.totalShares - ls.totalSharesSold > DustShares
        stopLossStep == getActiveStopLossStep(ls, steps)
        first == bt_firstEnabledIndex(steps)
        recovered == first >= 0 /\ hasValidAsk
                     /\ currentAsk > steps[first + 1].buy.triggerPrice
        ls1 == IF ls.needsRecovery
               THEN [ls EXCEPT !.needsRecovery = FALSE, !.lastStepTime = DateNow]
               ELSE ls
        ls2 == getActiveStep(ls1, steps)
        w2 == setLS(IF ls.needsRecovery THEN persistLadderState(w, tokenId, ls1) ELSE w,
                    tokenId, ls2)
        nextStep == ls2.currentStepIndex + 1
    IN
    IF ls = NoLadder THEN Done(w)
    ELSE IF hasShares /\ hasValidBid /\ stopLossStep >= 0
            /\ currentBid <= steps[stopLossStep + 1].stopLoss
    THEN executeLadderStopLoss(w, tokenId, currentBid)
    ELSE IF ~hasValidBid /\ ~hasValidAsk THEN Done(w)
    ELSE IF ls.status # "active" THEN Done(w)
    ELSE IF ls.needsRecovery /\ ~recovered THEN Done(w)
    ELSE IF ls2.currentStepIndex >= Len(steps)
    THEN LET w3 == persistLS(lockLadderMarket(
                                setLS(w2, tokenId, [ls2 EXCEPT !.status = "completed"]),
                                ls2.marketSlug),
                            tokenId, FALSE)
         IN IF ls2.totalShares - ls2.totalSharesSold < DustShares
            THEN Done([setLS(w3, tokenId, NoLadder) EXCEPT !.del = @ \cup {tokenId}])
            ELSE Done(w3)
    ELSE IF ls2.currentStepPhase = "buy"
    THEN IF hasValidAsk /\ currentAsk <= steps[nextStep].buy.triggerPrice
         THEN executeLadderBuyStep(w2, tokenId, nextStep, currentAsk)
         ELSE Done(w2)
    ELSE IF hasValidBid /\ currentBid >= steps[nextStep].sell.triggerPrice
    THEN executeLadderSellStep(w2, tokenId, nextStep, currentBid)
    ELSE Done(w2)

-----------------------------------------------------------------------------
(* Bot: entries *)

sideOfToken == [t \in {"m1up", "m1dn", "m2up", "m2dn"} |->
                   IF t \in {"m1up", "m2up"} THEN "UP" ELSE "DOWN"]

positionsSize(s) == Cardinality({t \in LiveTokens : s.positions[t] # NoPos})

\* the finally blocks of enterPosition's real-trading branch
enterFinally(w, t) ==
    releaseEntry([w EXCEPT !.s.reservedBalance = @ - t.loc.amt], t.tokenId)

\* enterPosition, up to its first await
enterPosition(w, tokenId, bidPrice, askPrice) ==
    LET slug == marketOf[tokenId]
        side == sideOfToken[tokenId]
        w1 == [w EXCEPT !.s.pendingEntries = @ \cup {tokenId}]
        currentPositionCount == positionsSize(w1.s) + Cardinality(w1.s.pendingEntries) - 1
        firstEnabledIndex == bt_firstEnabledIndex(liveSteps)
        firstStep == liveSteps[firstEnabledIndex + 1]
        ladderState == [initializeLadderState(tokenId, side, slug)
                           EXCEPT !.lastStepPrice = askPrice]
        availableBalance == getAvailableBalance(w1.s)
        estimatedShares == SharesFor(availableBalance, askPrice)
    IN
    IF \/ isLadderMode /\ isLadderMarketLocked(w, slug)
       \/ entryGuardHeld(w.s, tokenId)
       \/ w.s.positions[tokenId] # NoPos
       \/ w.s.ladderStates[tokenId] # NoLadder
       \/ positionsSize(w.s) >= config.maxPositions
       \/ ~isLadderMode /\ askPrice >= config.profitTarget
       \/ askPrice > config.maxEntryPrice
       \/ askPrice < config.entryThreshold
       \/ askPrice - bidPrice > config.maxSpread
       \/ getLastWinningTradeInMarket(w, slug, side)
    THEN Done(w)
    ELSE IF currentPositionCount >= config.maxPositions
    THEN Done(releaseEntry(w1, tokenId))
    ELSE IF isLadderMode
    THEN IF firstEnabledIndex = 0 - 1 THEN Done(releaseEntry(w1, tokenId))
         ELSE IF askPrice < firstStep.buy.triggerPrice THEN Done(releaseEntry(w1, tokenId))
         ELSE LET w2 == stepsCleared(setLS(w1, tokenId, ladderState), tokenId)
                  r == IF Abs(askPrice - firstStep.buy.triggerPrice) <= PriceTolerance
                       THEN executeLadderBuyStep(w2, tokenId, firstEnabledIndex + 1, askPrice)
                       ELSE Done(w2)
              IN Done(releaseEntry(r.w, tokenId))
    ELSE IF availableBalance < MinBuyAmount THEN Done(releaseEntry(w1, tokenId))
    ELSE IF config.paperTrading
    THEN LET shares == (estimatedShares * (1000 - config.paperFeeRate)) \div 1000
             w2 == insertTrade(orderPlaced(w1), slug, tokenId, side, askPrice, shares,
                               availableBalance, "null")
             w3 == [w2 EXCEPT !.s.positions[tokenId] =
                        [tradeId |-> Len(w2.x.trades[tokenId]), tokenId |-> tokenId,
                         shares |-> shares, entryPrice |-> askPrice, side |-> side,
                         marketSlug |-> slug, isLadder |-> FALSE],
                              !.s.balance = @ - availableBalance]
         IN IF shares < MIN_ORDER_SIZE THEN Done(releaseEntry(w1, tokenId))
            ELSE Done(releaseEntry(w3, tokenId))
    ELSE IF estimatedShares < MIN_ORDER_SIZE THEN Done(releaseEntry(w1, tokenId))
    ELSE Susp([orderPlaced(w1) EXCEPT !.s.reservedBalance = @ + availableBalance],
              "ent:buy",
              [NoLoc EXCEPT !.amt = availableBalance, !.price = askPrice,
                            !.avail0 = availableBalance, !.seq = w.h.orders + 1])

\* enterPosition after trader.buy
enterPosition_buy(w, t, out) ==
    CASE out = "ok" -> Susp(w, "ent:fill", t.loc)
      [] out = "null" -> Done(enterFinally(w, t))
      [] OTHER -> Thrown(enterFinally(w, t))

\* enterPosition after trader.waitForFill
enterPosition_fill(w, t, out) ==
    LET actualShares == SharesFor(t.loc.amt, t.loc.price) IN
    IF out = "none" THEN Susp(w, "ent:cancel", t.loc)
    ELSE Susp(buyFilled(w, t.tokenId, actualShares, t.loc.price), "ent:settle",
              [t.loc EXCEPT !.shares = actualShares])

\* enterPosition after trader.cancelOrder
enterPosition_cancel(w, t, out) == Done(enterFinally(w, t))

\* enterPosition after the settlement delay and trader.getPositionBalance
enterPosition_settle(w, t, out) ==
    LET tokenId == t.tokenId
        actualShares == t.loc.shares
        actualPositionBalance == IF out = "ok" THEN w.x.held[tokenId] ELSE 0
        sharesToSell == IF actualPositionBalance > 0 THEN actualPositionBalance
                        ELSE actualShares
        w1 == insertTrade(w, marketOf[tokenId], tokenId, sideOfToken[tokenId], t.loc.price,
                          sharesToSell, Proceeds(actualShares, t.loc.price), "null")
    IN Susp([w1 EXCEPT !.s.positions[tokenId] =
                [tradeId |-> Len(w1.x.trades[tokenId]), tokenId |-> tokenId,
                 shares |-> sharesToSell, entryPrice |-> t.loc.price,
                 side |-> sideOfToken[tokenId], marketSlug |-> marketOf[tokenId],
                 isLadder |-> FALSE]],
            "ent:bal", t.loc)

\* enterPosition after trader.getBalance
enterPosition_bal(w, t, out) ==
    IF out = "throw" THEN Thrown(enterFinally(w, t))
    ELSE Done(enterFinally(IF out = "ok" THEN [w EXCEPT !.s.balance = w.x.wallet] ELSE w, t))

\* a market is inside its entry window until it ends
inTimeWindow(w, slug) == slug \notin w.x.ended

\* checkEntryRealtime
checkEntryRealtime(w, tokenId, bestBid, bestAsk) ==
    IF \/ w.s.balance < MinBuyAmount
       \/ w.s.balance < Proceeds(MIN_ORDER_SIZE, bestAsk)
       \/ w.s.positions[tokenId] # NoPos
       \/ w.s.ladderStates[tokenId] # NoLadder
       \/ isLadderMode /\ isLadderMarketLocked(w, marketOf[tokenId])
       \/ ~inTimeWindow(w, marketOf[tokenId])
       \/ bestAsk - bestBid > config.maxSpread
       \/ bestAsk < config.entryThreshold
       \/ bestAsk > config.maxEntryPrice
       \/ ~isLadderMode /\ bestAsk >= config.profitTarget
    THEN Done(w)
    ELSE enterPosition(w, tokenId, bestBid, bestAsk)

-----------------------------------------------------------------------------
(* Bot: the polling tick's checks, one token at a time *)

\* checkLimitOrderFills, the loop body up to its first await; ws says whether
\* the price stream holds a fresh price of the token
checkLimitOrderFills(w, tokenId, ws, bid) ==
    LET position == w.s.positions[tokenId] IN
    IF position = NoPos THEN Done(w)
    ELSE IF position.isLadder \/ w.s.ladderStates[tokenId] # NoLadder THEN Done(w)
    ELSE IF config.paperTrading
    THEN IF ws /\ bid >= config.profitTarget
         THEN executeTakeProfit(w, tokenId, position, bid)
         ELSE Done(w)
    ELSE IF position.shares < DustShares
    THEN Done([closeTrade(w, tokenId, position.tradeId, 0, "RESOLVED")
                 EXCEPT !.s.positions[tokenId] = NoPos])
    ELSE IF ~ws THEN Susp(w, "lof:price", [NoLoc EXCEPT !.pos = position])
    ELSE IF bid >= config.profitTarget
    THEN executeTakeProfit(w, tokenId, position, bid)
    ELSE Done(w)

\* checkLimitOrderFills after trader.getPrice
checkLimitOrderFills_price(w, t, bid) ==
    IF bid >= config.profitTarget
    THEN executeTakeProfit(w, t.tokenId, t.loc.pos, bid)
    ELSE Done(w)

\* checkStopLosses, the loop body up to its first await
checkStopLosses(w, tokenId, ws, bid) ==
    LET position == w.s.positions[tokenId] IN
    IF position = NoPos THEN Done(w)
    ELSE IF position.isLadder \/ w.s.ladderStates[tokenId] # NoLadder THEN Done(w)
    ELSE IF ws
    THEN IF bid <= config.stopLoss THEN executeStopLoss(w, tokenId, position, bid)
         ELSE Done(w)
    ELSE IF ~config.paperTrading THEN Susp(w, "csl:price", [NoLoc EXCEPT !.pos = position])
    ELSE Done(w)

\* checkStopLosses after trader.getPrice
checkStopLosses_price(w, t, bid) ==
    IF bid <= config.stopLoss
    THEN executeStopLoss(w, t.tokenId, t.loc.pos, bid)
    ELSE Done(w)

\* checkLadderStepsPolling, the loop body up to its first await
checkLadderStepsPolling(w, tokenId, ws) ==
    IF ~isLadderMode \/ w.s.ladderStates[tokenId] = NoLadder THEN Done(w)
    ELSE IF ws \/ config.paperTrading THEN Done(w)
    ELSE Susp(w, "clp:price", NoLoc)

\* checkLadderStepsPolling after trader.getPrice
checkLadderStepsPolling_price(w, t, bid, ask) ==
    checkLadderStepRealtime(w, t.tokenId, bid, ask)

\* checkExpiredPositions, the loop body up to its first await
checkExpiredPositions(w, tokenId) ==
    LET position == w.s.positions[tokenId] IN
    IF position = NoPos THEN Done(w)
    ELSE IF position.marketSlug \notin w.x.ended THEN Done(w)
    ELSE IF config.paperTrading THEN Susp(w, "exp:res", [NoLoc EXCEPT !.pos = position])
    ELSE Susp(orderPlaced(w), "exp:sell", [NoLoc EXCEPT !.pos = position])

\* checkExpiredPositions after fetchMarketResolution (paper trading)
checkExpiredPositions_res(w, t, winner) ==
    LET position == t.loc.pos
        exitPrice == IF position.side = winner THEN 1000 ELSE 0
        w1 == closeTrade(w, t.tokenId, position.tradeId, exitPrice, "RESOLVED")
    IN IF winner = "null" THEN Done(w)
       ELSE Done(checkCompoundLimit(
               [w1 EXCEPT !.s.positions[t.tokenId] = NoPos,
                          !.s.balance = @ + Proceeds(position.shares, exitPrice)]))

\* checkExpiredPositions after trader.marketSell (real trading)
checkExpiredPositions_sell(w, t, out, price) ==
    LET position == t.loc.pos IN
    IF out = "ok"
    THEN LET w1 == sellFilled(w, t.tokenId, position.shares, price)
             w2 == closeTrade(w1, t.tokenId, position.tradeId, price, "RESOLVED")
         IN Susp([w2 EXCEPT !.s.positions[t.tokenId] = NoPos], "exp:bal", t.loc)
    ELSE Done(w)

\* checkExpiredPositions after trader.getBalance
checkExpiredPositions_bal(w, t, out) ==
    Done(IF out = "ok" THEN [w EXCEPT !.s.balance = w.x.wallet] ELSE w)

\* scanForEntries, up to its await of fetchBtc15MinMarkets (tick calls it only
\* with a balance above one dollar)
scanForEntries(w) ==
    IF w.s.balance > MinBuyAmount THEN Susp(w, "scan:fetch", NoLoc) ELSE Done(w)

\* scanForEntries, the loop body for one eligible market
scanEnter(w, tokenId, bid, ask) ==
    IF \/ w.s.positions[tokenId] # NoPos
       \/ w.s.ladderStates[tokenId] # NoLadder
       \/ isLadderMode /\ isLadderMarketLocked(w, marketOf[tokenId])
    THEN Done(w)
    ELSE enterPosition(w, tokenId, bid, ask)

\* findEligibleMarkets: what makes a market eligible at the quoted price
eligibleQuote(w, tokenId, q) ==
    /\ inTimeWindow(w, marketOf[tokenId])
    /\ q[2] >= config.entryThreshold
    /\ q[2] <= config.maxEntryPrice
    /\ q[2] - q[1] <= config.maxSpread

-----------------------------------------------------------------------------
(* Bot: async calls as tasks *)

TokenOrder == << "m1up", "m2up" >>

\* variant of the onPrice callback that runs the stop-loss check first in
\* ladder mode too
PriceStages_stopFirst(tokenId) ==
    IF isLadderMode
    THEN << <<"SLR", tokenId>>, <<"LSR", tokenId>>, <<"ENR", tokenId>> >>
    ELSE << <<"SLR", tokenId>>, <<"TPR", tokenId>>, <<"ENR", tokenId>> >>

\* the checks a price update runs, in order (the onPrice callback)
PriceStages(tokenId) ==
    IF isLadderMode
    THEN << <<"LSR", tokenId>>, <<"SLR", tokenId>>, <<"ENR", tokenId>> >>
    ELSE << <<"SLR", tokenId>>, <<"TPR", tokenId>>, <<"ENR", tokenId>> >>

\* the checks of tick() after the wallet sync, each loop unrolled over the tokens
TickStages ==
    << <<"LOF", "m1up">>, <<"LOF", "m2up">>, <<"EXP", "m1up">>, <<"EXP", "m2up">>,
       <<"CSL", "m1up">>, <<"CSL", "m2up">>, <<"CLP", "m1up">>, <<"CLP", "m2up">>,
       <<"SCAN", "null">> >>

NoTask == [kind |-> "null", tokenId |-> "null", wsToken |-> "null", bid |-> 0, ask |-> 0,
           op |-> "null", todo |-> << >>, pc |-> "done", loc |-> NoLoc]

\* one check, up to its first await
StageStart(w, t, stage) ==
    LET op == stage[1]
        tok == stage[2]
        ws == t.wsToken = tok
    IN CASE op = "LSR" -> checkLadderStepRealtime(w, tok, t.bid, t.ask)
         [] op = "SLR" -> IF isLadderMode /\ LS(w, tok) # NoLadder THEN Done(w)
                          ELSE checkStopLossRealtime(w, tok, t.bid)
         [] op = "TPR" -> checkProfitTargetRealtime(w, tok, t.bid)
         [] op = "ENR" -> checkEntryRealtime(w, tok, t.bid, t.ask)
         [] op = "LOF" -> checkLimitOrderFills(w, tok, ws, t.bid)
         [] op = "EXP" -> checkExpiredPositions(w, tok)
         [] op = "CSL" -> checkStopLosses(w, tok, ws, t.bid)
         [] op = "CLP" -> checkLadderStepsPolling(w, tok, ws)
         [] op = "SCAN" -> scanForEntries(w)
         [] OTHER -> scanEnter(w, tok, t.bid, t.ask)

\* a rejection ends a price callback and a scan; the loops of tick() catch it
aborts(t, op) == t.kind = "price" \/ op = "EN"

\* a suspended tick() keeps the price it read from the price stream only
\* while one of its remaining checks reads it
forget(t) ==
    IF t.kind = "tick" /\ \A i \in 2..Len(t.todo) : t.todo[i][1] \notin {"LOF", "CSL", "CLP"}
    THEN [t EXCEPT !.wsToken = "null", !.bid = 0, !.ask = 0]
    ELSE t

\* runs the remaining checks of a call until one suspends; returns the world
\* and the task (NoTask when the call has returned)
RECURSIVE RunFrom(_, _)
\* what follows the first remaining check of the call t, which returned r
AfterStage(r, t) ==
    IF r.pc # "done"
    THEN [w |-> r.w,
          t |-> [forget(t) EXCEPT !.tokenId = Head(t.todo)[2], !.op = Head(t.todo)[1],
                                  !.todo = Tail(t.todo), !.pc = r.pc, !.loc = r.loc]]
    ELSE IF r.thrown /\ aborts(t, Head(t.todo)[1]) THEN [w |-> r.w, t |-> NoTask]
    ELSE RunFrom(r.w, [t EXCEPT !.todo = Tail(t.todo)])

RunFrom(w, t) ==
    IF t.todo = << >> THEN [w |-> w, t |-> NoTask]
    ELSE AfterStage(StageStart(w, t, Head(t.todo)), t)

\* what follows a continuation r of the suspended call t
AfterResume(r, t) ==
    IF r.pc # "done" THEN [w |-> r.w, t |-> [t EXCEPT !.pc = r.pc, !.loc = r.loc]]
    ELSE IF r.thrown /\ aborts(t, t.op) THEN [w |-> r.w, t |-> NoTask]
    ELSE RunFrom(r.w, [t EXCEPT !.pc = "done", !.loc = NoLoc])

\* the price-stream reading of a tick(): a fresh price of at most one token
\* (tick() reads its bid only in normal mode)
tickReading(t, tok, q) ==
    [t EXCEPT !.wsToken = tok, !.bid = q[1], !.ask = q[2], !.todo = TickStages,
              !.pc = "done"]

\* the continuation of the suspended call t; out is what the awaited call
\* produced and q the price it quoted
Continue(w, t, out, q) ==
    CASE t.pc = "esl:sell" -> executeStopLoss_sell(w, t, out)
      [] t.pc = "esl:bal" -> executeStopLoss_bal(w, t, out)
      [] t.pc = "etp:sell" -> executeTakeProfit_sell(w, t, out)
      [] t.pc = "etp:bal" -> executeTakeProfit_bal(w, t, out)
      [] t.pc = "ent:buy" -> enterPosition_buy(w, t, out)
      [] t.pc = "ent:fill" -> enterPosition_fill(w, t, out)
      [] t.pc = "ent:cancel" -> enterPosition_cancel(w, t, out)
      [] t.pc = "ent:settle" -> enterPosition_settle(w, t, out)
      [] t.pc = "ent:bal" -> enterPosition_bal(w, t, out)
      [] t.pc = "lbs:buy" -> executeLadderBuyStep_buy(w, t, out)
      [] t.pc = "lbs:fill" -> executeLadderBuyStep_fill(w, t, out)
      [] t.pc = "lbs:cancel" -> executeLadderBuyStep_cancel(w, t, out)
      [] t.pc = "lbs:bal" -> executeLadderBuyStep_bal(w, t, out)
      [] t.pc = "lss:sell" -> executeLadderSellStep_sell(w, t, out)
      [] t.pc = "lss:bal" -> executeLadderSellStep_bal(w, t, out)
      [] t.pc = "lsl:sell" -> executeLadderStopLoss_sell(w, t, out)
      [] t.pc = "lsl:bal" -> executeLadderStopLoss_bal(w, t, out)
      [] t.pc = "exp:res" -> checkExpiredPositions_res(w, t, out)
      [] t.pc = "exp:sell" -> checkExpiredPositions_sell(w, t, out, q[1])
      [] t.pc = "exp:bal" -> checkExpiredPositions_bal(w, t, out)
      [] t.pc = "lof:price" -> checkLimitOrderFills_price(w, t, q[1])
      [] t.pc = "csl:price" -> checkStopLosses_price(w, t, q[1])
      [] t.pc = "clp:price" -> checkLadderStepsPolling_price(w, t, q[1], q[2])
      [] OTHER -> Done(w)

SellPcs == {"esl:sell", "etp:sell", "lss:sell", "lsl:sell", "exp:sell"}
BuyPcs == {"ent:buy", "lbs:buy"}
FillPcs == {"ent:fill", "lbs:fill"}
BalPcs == {"esl:bal", "etp:bal", "ent:bal", "lbs:bal", "lss:bal", "lsl:bal", "exp:bal"}
PricePcs == {"lof:price", "csl:price", "clp:price"}
LadderPcs == {"lbs:buy", "lbs:fill", "lbs:cancel", "lbs:bal", "lss:sell", "lss:bal",
              "lsl:sell", "lsl:bal"}

\* the shares a suspended sell asks the exchange to sell
sellAsk(t) == IF t.pc \in {"esl:sell", "etp:sell", "exp:sell"} THEN t.loc.pos.shares
              ELSE t.loc.shares

\* what the awaited call of t can produce in world w
Outcomes(w, t) ==
    CASE t.pc \in SellPcs ->
           (IF canSell(w, t.tokenId, sellAsk(t)) THEN {"ok"} ELSE {}) \cup {"null", "throw"}
      [] t.pc \in BuyPcs -> {"ok", "null", "throw"}
      [] t.pc \in FillPcs ->
           (IF w.x.wallet >= Proceeds(SharesFor(t.loc.amt, t.loc.price), t.loc.price)
            THEN {"filled"} ELSE {}) \cup {"none"}
      [] t.pc \in BalPcs -> {"ok", "null"}
      [] t.pc = "ent:settle" -> {"ok", "null"}
      [] t.pc = "exp:res" -> {"UP", "DOWN", "null"}
      [] OTHER -> {"ok"}

\* the prices the awaited call of t can quote
QuotesOf(t) ==
    IF t.pc \in PricePcs THEN QuotesFor(t.tokenId)
    ELSE IF t.pc = "exp:sell" THEN {q \in QuotesFor(t.tokenId) : q[1] > 0}
    ELSE {<<0, 0>>}

\* the world of a step; what was seen of a finished stop-loss episode is kept
\* for one state only
W == World(state, ex,
           [hist EXCEPT !.sl = [t \in LiveTokens |->
                                   IF hist.sl[t].open THEN hist.sl[t] ELSE NoEpisode]])

\* a reference to a ladder object that a step removed from the map is stale
mark(t, del) ==
    IF t.tokenId \in del /\ t.pc \in LadderPcs THEN [t EXCEPT !.loc.orphan = TRUE] ELSE t

\* the step's effect: r is [w, t] as RunFrom returns it, others the other calls
Commit(r, others) ==
    /\ r.w.h.orders <= MaxOrders
    /\ state' = r.w.s
    /\ ex' = r.w.x
    /\ hist' = r.w.h
    /\ tasks' = {mark(t2, r.w.del) : t2 \in others}
                    \cup (IF r.t = NoTask THEN {} ELSE {r.t})
    /\ UNCHANGED <<config, engine, run>>

InitLive ==
    /\ config \in LiveConfigs
    /\ state = [balance |-> config.startingBalance, reservedBalance |-> 0,
                savedProfit |-> 0,
                positions |-> [t \in LiveTokens |-> NoPos],
                pendingEntries |-> {}, pendingExits |-> {},
                ladderStates |-> [t \in LiveTokens |-> NoLadder],
                ladderMarketLocks |-> {}]
    /\ ex = [wallet |-> config.startingBalance, held |-> [t \in LiveTokens |-> 0],
             trades |-> [t \in LiveTokens |-> << >>], ended |-> {}]
    /\ hist = [orders |-> 0, sl |-> [t \in LiveTokens |-> NoEpisode],
               steps |-> [t \in LiveTokens |-> << >>]]
    /\ tasks = {}
    /\ engine = LiveIdle
    /\ run = LiveIdle

\* the update q of token tok is delivered: its onPrice callback runs up to its
\* first await
Update(tok, q) ==
    Commit(RunFrom(W, [NoTask EXCEPT !.kind = "price", !.tokenId = tok,
                                     !.bid = q[1], !.ask = q[2],
                                     !.todo = PriceStages(tok)]),
           tasks)

\* the price stream delivers an update: the onPrice callback starts
DispatchPrice ==
    /\ Cardinality(tasks) < MaxTasks
    /\ tickOverlaps \/ \A t \in tasks : t.kind # "tick"
    /\ \E tok \in LiveTokens : \E q \in QuotesFor(tok) : Update(tok, q)

\* the interval timer fires: tick() starts, and awaits the wallet balance
\* when trading for real
DispatchTick ==
    /\ Cardinality(tasks) < MaxTasks
    /\ tickOverlaps \/ tasks = {}
    /\ \A t \in tasks : t.kind # "tick"
    /\ LET t0 == [NoTask EXCEPT !.kind = "tick"] IN
       IF config.paperTrading
       THEN \E tok \in LiveTokens \cup {"none"} :
            \E q \in (IF tok = "none" \/ isLadderMode THEN {<<0, 0>>} ELSE QuotesFor(tok)) :
               Commit(RunFrom(W, tickReading(t0, tok, q)), tasks)
       ELSE Commit([w |-> W, t |-> [t0 EXCEPT !.pc = "tick:bal", !.op = "SYNC"]], tasks)

\* trader.getBalance of tick() settles: the wallet sync, then the checks
ResumeSync ==
    \E t \in tasks :
       /\ t.pc = "tick:bal"
       /\ \E out \in {"ok", "null"}, tok \in LiveTokens \cup {"none"} :
          \E q \in (IF tok = "none" \/ isLadderMode THEN {<<0, 0>>} ELSE QuotesFor(tok)) :
             Commit(RunFrom(IF out = "ok" THEN applyCompoundLimit(W, W.x.wallet) ELSE W,
                            tickReading(t, tok, q)),
                    tasks \ {t})

\* an awaited call of the exchange, the wallet or the market API settles
Resume ==
    \E t \in tasks :
       /\ t.pc \notin {"scan:fetch", "tick:bal"}
       /\ \E out \in Outcomes(W, t), q \in QuotesOf(t) :
            Commit(AfterResume(Continue(W, t, out, q), t), tasks \ {t})

\* fetchBtc15MinMarkets settles: the scan enters the eligible markets in turn
ResumeScan ==
    \E t \in tasks :
       /\ t.pc = "scan:fetch"
       /\ \E q \in LiveQuotes, elig \in SUBSET LiveTokens :
            /\ \A tok \in elig : q \in QuotesFor(tok) /\ eligibleQuote(W, tok, q)
            /\ elig = {} => q = <<640, 650>>
            /\ Commit(RunFrom(W, [t EXCEPT !.pc = "done", !.loc = NoLoc,
                                           !.bid = q[1], !.ask = q[2],
                                           !.todo = SelectSeq(
                                               << <<"EN", "m1up">>, <<"EN", "m2up">> >>,
                                               LAMBDA st : st[2] \in elig)]),
                      tasks \ {t})

\* a market reaches its end date
EndMarket ==
    /\ \E m \in EndingMarkets :
         /\ m \notin ex.ended
         /\ ex' = [ex EXCEPT !.ended = @ \cup {m}]
    /\ UNCHANGED <<config, engine, run, state, tasks, hist>>

NextLive ==
    DispatchPrice \/ DispatchTick \/ Resume \/ ResumeSync \/ ResumeScan \/ EndMarket

SpecLive == InitLive /\ [][NextLive]_vars

-----------------------------------------------------------------------------
(* Bot: properties of the guards and of the balance *)

\* C1 (as the code has it): across the stop-loss triggers of a token that
\* overlap, at most one sell order is placed, at most one close trade is
\* recorded and the balance is updated at most once, and only after the close;
\* the close trade is recorded exactly once when the order of the trigger that
\* went ahead is filled. The triggers record nothing when that order fails.
C1_AtMostOnce ==
    \A tok \in LiveTokens :
       LET e == hist.sl[tok] IN
       /\ e.sells <= 1
       /\ e.sold <= e.sells
       /\ e.closes <= 1
       /\ e.updates <= e.closes
       /\ e.sold = 1 => e.closes = 1
       /\ config.paperTrading /\ e # NoEpisode => e.closes = 1 /\ e.updates = 1

\* C1 as stated: two overlapping stop-loss triggers of a token leave exactly
\* one close trade and exactly one balance update
C1_AsStated ==
    \A tok \in LiveTokens :
       hist.sl[tok].overlap /\ ~hist.sl[tok].open
          => hist.sl[tok].closes = 1 /\ hist.sl[tok].updates = 1

\* a second trigger arrived while the sell order of the first was in flight,
\* the order was filled, and the triggers are over: one order, one close, one update
C1_Witness ==
    \E tok \in LiveTokens :
       /\ hist.sl[tok].overlap /\ ~hist.sl[tok].open
       /\ hist.sl[tok].sells = 1 /\ hist.sl[tok].sold = 1
       /\ hist.sl[tok].closes = 1 /\ hist.sl[tok].updates = 1
       /\ state.positions[tok] = NoPos
       /\ tok \notin state.pendingExits

\* C2: the number of open Positions is at most maxPositions in every state
C2_MaxPositions == positionsSize(state) <= config.maxPositions

\* the awaits of an order's placement and of its fill
PlacementPcs == SellPcs \cup BuyPcs \cup FillPcs

\* the call t stays suspended where it is across the step
StaysSuspended(t) ==
    \E u \in tasks' : u = t \/ u = [t EXCEPT !.loc.orphan = TRUE]

\* the step belongs to a price callback: no polling tick starts, moves or ends
PriceCallbackStep ==
    {u \in tasks : u.kind = "tick"} = {u \in tasks' : u.kind = "tick"}

\* C3: while an operation on a token is suspended on the placement or the fill
\* of its order, no step of another operation changes the token's Position or
\* LadderState (the steps of the price callbacks are the ones looked at)
C3_NoInterleaving ==
    [][\A t \in tasks :
          t.pc \in PlacementPcs /\ StaysSuspended(t) /\ PriceCallbackStep
             => /\ state'.positions[t.tokenId] = state.positions[t.tokenId]
                /\ state'.ladderStates[t.tokenId] = state.ladderStates[t.tokenId]]_vars

\* the buy attempts in flight: from the reservation to the finally block
EntryPcs == {"ent:buy", "ent:fill", "ent:cancel", "ent:settle", "ent:bal",
             "lbs:buy", "lbs:fill", "lbs:cancel", "lbs:bal"}
InFlightBuys(ts) == {t \in ts : t.pc \in EntryPcs}

RECURSIVE SumAmt(_)
SumAmt(ts) ==
    IF ts = {} THEN 0
    ELSE LET t == CHOOSE u \in ts : TRUE IN t.loc.amt + SumAmt(ts \ {t})

\* C4 (as the code has it): a buy attempt commits at most the balance that is
\* available when it starts, which is the balance of that moment less what the
\* attempts in flight have committed; so when an attempt starts, the commitments
\* of the attempts in flight sum to at most the balance of that moment
C4_WithinAvailable ==
    [][\A t \in InFlightBuys(tasks') \ tasks :
          t.pc \in BuyPcs
             => /\ t.loc.amt <= t.loc.avail0
                /\ state'.reservedBalance = SumAmt(InFlightBuys(tasks'))
                /\ state'.reservedBalance <= state'.balance]_vars

\* C4 as stated: two buy attempts in flight at the same time commit together
\* at most the balance that was available before the first of them started
C4_AsStated ==
    \A t1 \in InFlightBuys(tasks) : \A t2 \in InFlightBuys(tasks) :
       t1.loc.seq < t2.loc.seq => t1.loc.amt + t2.loc.amt <= t1.loc.avail0

\* two buy attempts are in flight, the second one just placed
C4_Witness ==
    \E t1 \in InFlightBuys(tasks) : \E t2 \in InFlightBuys(tasks) :
       /\ t1.loc.seq < t2.loc.seq
       /\ t1.loc.amt > 0 /\ t2.loc.amt > 0
       /\ t2.pc \in BuyPcs
       /\ state.reservedBalance = t1.loc.amt + t2.loc.amt

\* C5: reservedBalance is at most balance in every state
C5_ReservedWithinBalance == state.reservedBalance <= state.balance

\* the awaits of the operations that hold a token's exit guard
ExitPcs == {"esl:sell", "esl:bal", "etp:sell", "etp:bal", "lss:sell", "lss:bal",
            "lsl:sell", "lsl:bal"}

\* an operation of the given awaits is in flight on the token
InFlightOn(tok, pcs) == \E t \in tasks : t.tokenId = tok /\ t.pc \in pcs

\* C6: a token is in the entry-guard set only while an entry or ladder buy step
\* on it is in flight, and in the exit-guard set only while an exit on it is in
\* flight: every exit path of the operations (success, early return, failed or
\* unfilled order, thrown error) has removed it
C6_GuardsReleased ==
    \A tok \in LiveTokens :
       /\ tok \in state.pendingEntries => InFlightOn(tok, EntryPcs)
       /\ tok \in state.pendingExits => InFlightOn(tok, ExitPcs)

\* a stop-loss has just ended with its sell order failed: the position is still
\* there, nothing is in flight on the token and the guard is free again
C6_Witness ==
    \E tok \in LiveTokens :
       /\ hist.sl[tok].sells = 1 /\ hist.sl[tok].sold = 0 /\ ~hist.sl[tok].open
       /\ state.positions[tok] # NoPos
       /\ ~InFlightOn(tok, ExitPcs \cup EntryPcs)
       /\ tok \notin state.pendingExits /\ tok \notin state.pendingEntries

\* the position of a step in the configured list
StepIndex(stepId) == CHOOSE i \in 1..Len(liveSteps) : liveSteps[i].id = stepId

\* the step trades recorded before the i-th one of the ladder since its reset
EarlierStepTrade(ev, i, op, stepId) ==
    \E j \in 1..(i - 1) : ev[j].op = op /\ ev[j].step = stepId

\* C9: since the last reset of a ladder its step trades are in step order: a
\* step's buy comes when every enabled step before it is completed or skipped,
\* a step's sell comes after that step's buy, no step buys or sells twice, and
\* the step index never decreases from one trade to the next
C9_StepOrder ==
    \A tok \in LiveTokens :
       LET ev == hist.steps[tok] IN
       \A i \in 1..Len(ev) :
          /\ ev[i].op = "buy" =>
                /\ \A k \in 1..(StepIndex(ev[i].step) - 1) :
                      liveSteps[k].enabled => liveSteps[k].id \in ev[i].done
                /\ ~EarlierStepTrade(ev, i, "buy", ev[i].step)
          /\ ev[i].op = "sell" =>
                /\ EarlierStepTrade(ev, i, "buy", ev[i].step)
                /\ ~EarlierStepTrade(ev, i, "sell", ev[i].step)
          /\ \A j \in 1..(i - 1) : StepIndex(ev[j].step) <= StepIndex(ev[i].step)


-----------------------------------------------------------------------------
(* Both engines on one price history: each recorded tick is handed to
   BacktestEngine.run's loop and, as a price update, to the Bot's onPrice
   callback (paper trading, where the callback returns without suspending) *)

MaxBothTime == 5

\* the compounding sweep switched on: a winning close passes the limit
Compounding(c) == [c EXCEPT !.compoundLimit = 13000, !.baseBalance = 10000]

BothConfigs ==
    {[BaseConfig EXCEPT !.timeWindowMs = 6], LadderConfig(StepsTwo, 6),
     LadderConfig(StepsLoss, 6), LadderConfig(StepsHalf, 6),
     Compounding([BaseConfig EXCEPT !.timeWindowMs = 6]),
     Compounding(LadderConfig(StepsOne, 6))}

InitBoth ==
    /\ config \in BothConfigs
    /\ engine = [balance |-> config.startingBalance, savedProfit |-> 0,
                 position |-> NoPosition, ladderState |-> NoLadder,
                 ladderMarketLocks |-> {}, trades |-> << >>, equityCurve |-> << >>,
                 peakBalance |-> config.startingBalance, lastTrade |-> NoTrade]
    /\ run = [now |-> 0, expiredMarkets |-> {}, tick |-> NoTick, phase |-> "loop"]
    /\ state = [balance |-> config.startingBalance, reservedBalance |-> 0,
                savedProfit |-> 0,
                positions |-> [t \in LiveTokens |-> NoPos],
                pendingEntries |-> {}, pendingExits |-> {},
                ladderStates |-> [t \in LiveTokens |-> NoLadder],
                ladderMarketLocks |-> {}]
    /\ ex = [wallet |-> config.startingBalance, held |-> [t \in LiveTokens |-> 0],
             trades |-> [t \in LiveTokens |-> << >>], ended |-> {}]
    /\ hist = [orders |-> 0, sl |-> [t \in LiveTokens |-> NoEpisode],
               steps |-> [t \in LiveTokens |-> << >>]]
    /\ tasks = {}

\* the Bot's world at the time of a tick: the markets past their end date
\* have no time remaining
WorldAt(timestamp) ==
    [W EXCEPT !.x.ended = {m \in Markets : endDate[m] <= timestamp}]

\* the onPrice callback on world w, run to its return or first suspension
onPrice(w, tick) ==
    RunFrom(w, [NoTask EXCEPT !.kind = "price", !.tokenId = tick.tokenId,
                              !.bid = tick.bestBid, !.ask = tick.bestAsk,
                              !.todo = PriceStages(tick.tokenId)])

\* the Bot after the callback returned r
Delivered(r) ==
    /\ state' = r.w.s
    /\ ex' = r.w.x
    /\ hist' = r.w.h
    /\ tasks' = IF r.t = NoTask THEN {} ELSE {r.t}

BothTick ==
    /\ run.now < MaxBothTime
    /\ \E tok \in LiveTokens, q \in Quotes :
          LET tick == [timestamp |-> run.now + 1, tokenId |-> tok,
                       marketSlug |-> marketOf[tok], bestBid |-> q[1], bestAsk |-> q[2]]
          IN /\ Iterate(bt_runTick(engine, run.expiredMarkets, tick), tick)
             /\ Delivered(onPrice(WorldAt(tick.timestamp), tick))
    /\ UNCHANGED config

NextBoth == BothTick

SpecBoth == InitBoth /\ [][NextBoth]_vars

\* the step started the Bot's ladder of token tok
LiveLadderStarted(tok) ==
    state.ladderStates[tok] = NoLadder /\ state'.ladderStates[tok] # NoLadder

\* the step started the replayed ladder
ReplayLadderStarted ==
    /\ engine'.ladderState # NoLadder
    /\ engine'.ladderState.tokenId # engine.ladderState.tokenId

\* a ladder just started on ask: at the trigger it holds shares and is in the
\* first enabled step's sell phase, above it it holds nothing and waits to buy
StartedAsSpecified(ls, ask) ==
    IF Abs(ask - FirstEnabledStep.buy.triggerPrice) <= PriceTolerance
    THEN /\ ls.totalShares > 0
         /\ ls.currentStepPhase = "sell"
         /\ ActiveStep(ls, config.ladderSteps) = FirstEnabledStep
    ELSE /\ ls.totalShares = 0
         /\ ls.currentStepPhase = "buy"

\* C11: when a ladder is started on a tick whose ask is within the tolerance
\* of the first enabled step's buy trigger, the first buy step executes as part
\* of that start, so that the ladder holds shares and is in that step's sell
\* phase afterwards, in the live engine as in replay; otherwise the ladder
\* starts with zero shares and waits in buy phase
C11_StartAtTrigger ==
    [][/\ \A tok \in LiveTokens :
             LiveLadderStarted(tok) =>
                 StartedAsSpecified(state'.ladderStates[tok], run'.tick.bestAsk)
       /\ ReplayLadderStarted =>
             StartedAsSpecified(engine'.ladderState, run'.tick.bestAsk)]_vars

\* the replay half of C11
C11_ReplayHalf ==
    [][ReplayLadderStarted =>
          StartedAsSpecified(engine'.ladderState, run'.tick.bestAsk)]_vars


-----------------------------------------------------------------------------
(* Both engines: completion of a ladder *)

\* the ladder ls is active with every enabled step completed or skipped, and an
\* update (bid, ask) of its token does not breach the last step's stop-loss
AllStepsDone(ls, bid) ==
    /\ ls # NoLadder
    /\ ls.status = "active"
    /\ ~ls.needsRecovery
    /\ OpenSteps(ls, config.ladderSteps) = {}
    /\ ~(/\ ls.totalShares - ls.totalSharesSold > DustShares
         /\ bid > 0
         /\ bid <= ActiveStep(ls, config.ladderSteps).stopLoss)

\* what completion leaves of the ladder ls: after is the ladder slot, locks the
\* lock set
CompletedAsSpecified(ls, after, locks) ==
    /\ ls.marketSlug \in locks
    /\ IF ls.totalShares - ls.totalSharesSold < DustShares
       THEN after = NoLadder
       ELSE /\ after.status = "completed"
            /\ after.tokenId = ls.tokenId
            /\ after.totalShares = ls.totalShares
            /\ after.totalSharesSold = ls.totalSharesSold

\* a ladder with status completed has no step left and holds unsold shares
CompletedResident(ls) ==
    ls.status = "completed" =>
        /\ OpenSteps(ls, config.ladderSteps) = {}
        /\ ls.totalShares - ls.totalSharesSold >= DustShares

\* C12: when every step of a ladder is completed or skipped, the next update of
\* its token (before the market's end in replay, with a usable price in the
\* live engine) makes the ladder's status completed and adds its market to the
\* ladder lock set; the ladder state stays resident with status completed if
\* unsold shares remain and is discarded if no shares remain
C12_Completion ==
    [][/\ (/\ TickStep
           /\ run'.tick.tokenId = engine.ladderState.tokenId
           /\ run'.tick.timestamp < endDate[run'.tick.marketSlug]
           /\ AllStepsDone(engine.ladderState, run'.tick.bestBid))
          => CompletedAsSpecified(engine.ladderState, engine'.ladderState,
                                  engine'.ladderMarketLocks)
       /\ CompletedResident(engine'.ladderState)
       /\ \A tok \in LiveTokens :
            /\ (/\ run'.tick.tokenId = tok
                /\ run'.tick.bestBid > 0 \/ run'.tick.bestAsk > 0
                /\ AllStepsDone(state.ladderStates[tok], run'.tick.bestBid))
               => CompletedAsSpecified(state.ladderStates[tok], state'.ladderStates[tok],
                                       state'.ladderMarketLocks)
            /\ CompletedResident(state'.ladderStates[tok])]_vars

\* both engines hold a completed ladder with unsold shares in a locked market
C12_Witness ==
    /\ engine.ladderState.status = "completed"
    /\ engine.ladderState.marketSlug \in engine.ladderMarketLocks
    /\ Len(engine.ladderState.completedSteps) >= 1
    /\ \E tok \in LiveTokens :
          /\ state.ladderStates[tok].status = "completed"
          /\ Len(state.ladderStates[tok].completedSteps) >= 1
          /\ state.ladderStates[tok].totalShares
                - state.ladderStates[tok].totalSharesSold >= DustShares
          /\ marketOf[tok] \in state.ladderMarketLocks


-----------------------------------------------------------------------------
(* Both engines: the ladder lock set *)

\* the step completed the ladder `before` (its slot holds `after` afterwards)
Completes(before, after) ==
    /\ before # NoLadder
    /\ before.status = "active"
    /\ OpenSteps(before, config.ladderSteps) = {}
    /\ after = NoLadder \/ (after.status = "completed" /\ after.tokenId = before.tokenId)

\* the step reset the ladder `before` by a step stop-loss
ResetByStopLoss(before, after) ==
    /\ before # NoLadder
    /\ after.tokenId = before.tokenId
    /\ after.needsRecovery
    /\ after.status = "active"
    /\ after.currentStepIndex = 0
    /\ after.totalShares = 0
    /\ after.completedSteps = << >>
    /\ after.skippedSteps = << >>
    /\ before.totalShares > 0

\* the lock set changes from locks to locks2 while the ladder slots of the
\* tokens toks change from before[t] to after[t]
LocksFollow(toks, before, after, locks, locks2) ==
    /\ \A m \in locks2 \ locks :
          \E t \in toks : before[t].marketSlug = m /\ Completes(before[t], after[t])
    /\ \A m \in locks \ locks2 :
          \E t \in toks : before[t].marketSlug = m /\ ResetByStopLoss(before[t], after[t])
    /\ \A t \in toks :
          /\ ResetByStopLoss(before[t], after[t]) => before[t].marketSlug \notin locks2
          /\ after[t].status = "completed" => after[t].marketSlug \in locks2
          /\ (after[t] # NoLadder /\ after[t].tokenId # before[t].tokenId)
                => after[t].marketSlug \notin locks

\* the replay engine's one ladder slot, as a map over the token that holds it
ReplaySlot(e) == [t \in {"slot"} |-> e.ladderState]

\* C13: a market is in the ladder lock set exactly when a ladder has completed
\* in it and has not since been reset by a step stop-loss: a step adds a market
\* only by completing a ladder of that market; a step removes a market only by
\* resetting a ladder of that market through a step stop-loss, and that reset
\* always removes it; a resident completed ladder's market is in the set; and
\* no new ladder is started on a token whose market is in the set
C13_LockSet ==
    [][/\ LocksFollow({"slot"}, ReplaySlot(engine), ReplaySlot(engine'),
                      engine.ladderMarketLocks, engine'.ladderMarketLocks)
       /\ LocksFollow(LiveTokens, state.ladderStates, state'.ladderStates,
                      state.ladderMarketLocks, state'.ladderMarketLocks)]_vars

\* in both engines the market of the tick just handled is in the lock set, its
\* ladder has been discarded, and the tick qualifies for an entry: no ladder
\* has been started
C13_Witness ==
    /\ run.tick.marketSlug \in engine.ladderMarketLocks
    /\ run.tick.marketSlug \in state.ladderMarketLocks
    /\ run.tick.timestamp < endDate[run.tick.marketSlug]
    /\ run.tick.bestAsk = 650
    /\ engine.balance >= MinBuyAmount
    /\ state.balance >= MinBuyAmount
    /\ engine.ladderState = NoLadder
    /\ state.ladderStates[run.tick.tokenId] = NoLadder
    /\ Len(engine.trades) > 0
    /\ engine.trades[Len(engine.trades)].exitTimestamp < run.tick.timestamp - 1
    /\ engine.trades[Len(engine.trades)].pnl <= 0


-----------------------------------------------------------------------------
(* Bot: expiry of a market in which a ladder holds shares *)

\* the step is the one in which checkExpiredPositions, resumed after its
\* resolution fetch or its market sell, closed the ladder position of tok
ExpiryClosedLadder(tok) ==
    /\ state.positions[tok] # NoPos
    /\ state.positions[tok].isLadder
    /\ state.ladderStates[tok] # NoLadder
    /\ state.ladderStates[tok].totalShares - state.ladderStates[tok].totalSharesSold
          > DustShares
    /\ state'.positions[tok] = NoPos
    /\ \E t \in tasks \ tasks' : t.tokenId = tok /\ t.pc \in {"exp:res", "exp:sell"}

\* C14: when a market ends while a ladder in it holds unsold shares, all of
\* those shares are closed in full at the market's resolution price, and
\* afterwards neither a resident ladder state nor a market lock for that ladder
\* remains
C14_ExpiryReleases ==
    [][\A tok \in LiveTokens :
          ExpiryClosedLadder(tok) =>
              /\ state'.ladderStates[tok] = NoLadder
              /\ marketOf[tok] \notin state'.ladderMarketLocks
              /\ \A i \in 1..Len(ex'.trades[tok]) : ex'.trades[tok][i].status # "OPEN"]_vars


-----------------------------------------------------------------------------
(* Replay: ticks of an expired market *)

\* a tick of market M is processed after a tick at or after M's end time
LateTick(M) ==
    /\ TickStep
    /\ run.now >= endDate[M]
    /\ run'.tick.marketSlug = M

\* nothing is open in a market whose end time the processed ticks have reached
NothingOpenIn(e, now) ==
    \A M \in Markets :
        now >= endDate[M] => e.position.marketSlug # M /\ e.ladderState.marketSlug # M

\* the engine holds a position or a ladder in a market that ends by `timestamp`
HeldEnds(e, timestamp) ==
    \/ e.position # NoPosition /\ endDate[e.position.marketSlug] <= timestamp
    \/ e.ladderState # NoLadder /\ endDate[e.ladderState.marketSlug] <= timestamp

\* the trades the step appended
NewTrades == SubSeq(engine'.trades, Len(engine.trades) + 1, Len(engine'.trades))

\* C15 (as the code has it): in replay, once a tick with timestamp at or after
\* market M's end time has been processed, every Position or LadderState that
\* was open in M has been force-closed, and a tick of M processed from then on
\* opens nothing and changes positions, ladders, balance or the trade list only
\* by force-closing what is held in another market whose end time its
\* timestamp has reached
C15_ExpiredIgnored ==
    [][/\ TickStep => NothingOpenIn(engine', run'.now)
       /\ \A M \in Markets :
            LateTick(M) =>
               /\ ~HeldEnds(engine, run'.tick.timestamp) => engine' = engine
               /\ engine'.position \in {engine.position, NoPosition}
               /\ engine'.ladderState \in {engine.ladderState, NoLadder}
               /\ Len(engine'.trades) >= Len(engine.trades)
               /\ \A i \in 1..Len(NewTrades) :
                     /\ NewTrades[i].exitReason = "MARKET_RESOLVED"
                     /\ NewTrades[i].marketSlug # M
                     /\ NewTrades[i].exitTimestamp = endDate[NewTrades[i].marketSlug]]_vars

\* C15 as stated: no tick of M processed after M's end changes positions,
\* ladders, balance or the trade list
C15_AsStated ==
    [][\A M \in Markets :
          LateTick(M) =>
             /\ engine'.position = engine.position
             /\ engine'.ladderState = engine.ladderState
             /\ engine'.balance = engine.balance
             /\ engine'.trades = engine.trades]_vars

\* a tick of an expired market that would qualify for an entry has been
\* processed after what was open in that market was force-closed: nothing is open
C15_Witness ==
    /\ run.phase = "loop"
    /\ run.tick.marketSlug \in Markets
    /\ run.tick.timestamp > endDate[run.tick.marketSlug]
    /\ run.tick.bestAsk = 650
    /\ engine.balance >= MinBuyAmount
    /\ engine.position = NoPosition
    /\ engine.ladderState = NoLadder
    /\ Len(engine.trades) > 0
    /\ engine.trades[Len(engine.trades)].exitReason = "MARKET_RESOLVED"
    /\ engine.trades[Len(engine.trades)].marketSlug = run.tick.marketSlug


-----------------------------------------------------------------------------
(* Replay: what a run leaves open *)

Unsold(ls) == ls.totalShares - ls.totalSharesSold

RECURSIVE SumShares(_)
SumShares(trades) ==
    IF trades = << >> THEN 0 ELSE Head(trades).shares + SumShares(Tail(trades))

\* the shares of the held position that the step closed
PositionSharesClosed ==
    IF engine.position # NoPosition /\ engine'.position # engine.position
    THEN engine.position.shares ELSE 0

\* the shares of the resident ladder that the step sold or closed
LadderSharesClosed ==
    IF engine.ladderState = NoLadder THEN 0
    ELSE IF engine'.ladderState.tokenId = engine.ladderState.tokenId
    THEN Max(0, Unsold(engine.ladderState) - Unsold(engine'.ladderState))
    ELSE Unsold(engine.ladderState)

\* C16: when a replay run returns, no Position and no LadderState is left open,
\* and every buy made during the run is matched by close trades that cover all
\* of its shares: each step of the run appends trades for exactly the shares
\* that leave the position and the ladder in it
C16_NothingLeftOpen ==
    [][/\ run'.phase = "done" =>
             engine'.position = NoPosition /\ engine'.ladderState = NoLadder
       /\ Len(engine'.trades) >= Len(engine.trades)
       /\ SubSeq(engine'.trades, 1, Len(engine.trades)) = engine.trades
       /\ SumShares(NewTrades) = PositionSharesClosed + LadderSharesClosed
       /\ \A i \in 1..Len(NewTrades) : NewTrades[i].shares > 0]_vars

\* the run has returned after its final force close sold what a ladder, which
\* had sold part of its shares before, still held in a market that had not ended
C16_Witness ==
    /\ run.phase = "done"
    /\ engine.position = NoPosition
    /\ engine.ladderState = NoLadder
    /\ Len(engine.trades) >= 2
    /\ engine.trades[Len(engine.trades)].exitReason = "MARKET_RESOLVED"
    /\ endDate[engine.trades[Len(engine.trades)].marketSlug] > run.now
    /\ engine.trades[Len(engine.trades) - 1].exitReason = "LADDER_STEP_SELL"
    /\ engine.trades[Len(engine.trades) - 1].tokenId
          = engine.trades[Len(engine.trades)].tokenId


-----------------------------------------------------------------------------
(* Replay: two runs of one engine on the same markets *)

MaxRerunTime == 3

\* the reset at the head of run()
bt_resetState_keepLocks(e) ==
    [balance |-> config.startingBalance, savedProfit |-> 0,
     position |-> NoPosition, ladderState |-> NoLadder,
     ladderMarketLocks |-> e.ladderMarketLocks, trades |-> << >>,
     equityCurve |-> << >>, peakBalance |-> config.startingBalance,
     lastTrade |-> NoTrade]
bt_resetState(e) ==
    [e EXCEPT !.balance = config.startingBalance, !.savedProfit = 0,
              !.position = NoPosition, !.ladderState = NoLadder,
              !.ladderMarketLocks = {}, !.trades = << >>, !.equityCurve = << >>,
              !.peakBalance = config.startingBalance, !.lastTrade = NoTrade]

\* the force close after the loop
bt_closeRemaining(e) ==
    LET e1 == IF e.position # NoPosition
              THEN bt_closePositionAtExpiry(e, e.position.marketSlug) ELSE e
    IN IF e1.ladderState # NoLadder
       THEN bt_closeLadderAtExpiry(e1, e1.ladderState.marketSlug) ELSE e1

\* what run() returns (the metrics are computed from the trades and the curve)
BacktestResult(e) ==
    [trades |-> e.trades, equityCurve |-> e.equityCurve,
     savedProfit |-> e.savedProfit, finalBalance |-> e.balance]

\* a new engine whose run() has been called
InitRerun ==
    /\ config \in ReplayConfigs
    /\ engine = bt_resetState(
                   [balance |-> config.startingBalance, savedProfit |-> 0,
                    position |-> NoPosition, ladderState |-> NoLadder,
                    ladderMarketLocks |-> {}, trades |-> << >>, equityCurve |-> << >>,
                    peakBalance |-> config.startingBalance, lastTrade |-> NoTrade])
    /\ run = [now |-> 0, expiredMarkets |-> {}, tick |-> NoTick, phase |-> "loop",
              runs |-> 1, ticks |-> << >>, first |-> BacktestResult(engine)]
    /\ state = LiveIdle /\ ex = LiveIdle /\ tasks = LiveIdle /\ hist = LiveIdle

\* first run: the next tick of the markets' price history
FirstRunTick ==
    /\ run.phase = "loop"
    /\ run.runs = 1
    /\ run.now < MaxRerunTime
    /\ \E tok \in ReplayTokens, q \in Quotes :
          LET tick == [timestamp |-> run.now + 1, tokenId |-> tok,
                       marketSlug |-> marketOf[tok], bestBid |-> q[1], bestAsk |-> q[2]]
              r == bt_runTick(engine, run.expiredMarkets, tick)
          IN /\ engine' = r[1]
             /\ run' = [run EXCEPT !.now = tick.timestamp, !.expiredMarkets = r[2],
                                   !.tick = tick, !.ticks = Append(@, tick)]
    /\ UNCHANGED <<config, state, ex, tasks, hist>>

\* second run: the same price history again
SecondRunTick ==
    /\ run.phase = "loop"
    /\ run.runs = 2
    /\ run.now < Len(run.ticks)
    /\ LET tick == run.ticks[run.now + 1]
           r == bt_runTick(engine, run.expiredMarkets, tick)
       IN /\ engine' = r[1]
          /\ run' = [run EXCEPT !.now = tick.timestamp, !.expiredMarkets = r[2],
                                !.tick = tick]
    /\ UNCHANGED <<config, state, ex, tasks, hist>>

\* run() returns
Return ==
    /\ run.phase = "loop"
    /\ run.runs = 2 => run.now = Len(run.ticks)
    /\ engine' = bt_closeRemaining(engine)
    /\ run' = [run EXCEPT !.phase = "done",
                          !.first = IF run.runs = 1
                                    THEN BacktestResult(bt_closeRemaining(engine)) ELSE @]
    /\ UNCHANGED <<config, state, ex, tasks, hist>>

\* run() is called again on the same markets
RunAgain ==
    /\ run.phase = "done"
    /\ run.runs = 1
    /\ engine' = bt_resetState(engine)
    /\ run' = [run EXCEPT !.runs = 2, !.now = 0, !.expiredMarkets = {},
                          !.tick = NoTick, !.phase = "loop"]
    /\ UNCHANGED <<config, state, ex, tasks, hist>>

NextRerun == FirstRunTick \/ SecondRunTick \/ Return \/ RunAgain

SpecRerun == InitRerun /\ [][NextRerun]_vars

\* the timestamps of the price history and of the markets' ends
ReplayTimes == 0..Max(MaxTime, MaxRerunTime)

\* C17: running the replay engine twice on the same market set and
\* configuration yields identical trade lists, equity curves and final
\* balances (from which the metrics are computed); no output depends on
\* wall-clock time or on state left over from an earlier run
C17_Deterministic ==
    /\ (run.phase = "done" /\ run.runs = 2) => BacktestResult(engine) = run.first
    /\ \A i \in 1..Len(engine.trades) :
          /\ engine.trades[i].entryTimestamp \in ReplayTimes
          /\ engine.trades[i].exitTimestamp \in ReplayTimes
    /\ \A i \in 1..Len(engine.equityCurve) :
          engine.equityCurve[i].timestamp \in ReplayTimes

\* the second run has returned as the first did, after a step stop-loss reset
\* its ladder (which read the wall clock) and the bought-back shares were
\* force-closed
C17_Witness ==
    /\ run.phase = "done"
    /\ run.runs = 2
    /\ BacktestResult(engine) = run.first
    /\ Len(engine.trades) >= 1
    /\ engine.trades[1].exitReason = "LADDER_STOP_LOSS"
    /\ Len(run.ticks) = MaxRerunTime


-----------------------------------------------------------------------------
(* Both engines: the decisions a price update triggers *)

\* the decisions the replay engine took on the tick of the step; the forced
\* close of an expired market is no decision on a price
ReplayDecisions ==
    (IF engine'.position # NoPosition /\ engine'.position # engine.position
     THEN {"entry"} ELSE {})
    \cup (IF /\ engine'.ladderState # NoLadder
             /\ Unsold(engine'.ladderState)
                   > (IF engine'.ladderState.tokenId = engine.ladderState.tokenId
                      THEN Unsold(engine.ladderState) ELSE 0)
          THEN {"step buy"} ELSE {})
    \cup {"take profit" : i \in {j \in 1..Len(NewTrades) :
                                    NewTrades[j].exitReason = "PROFIT_TARGET"}}
    \cup {"stop loss" : i \in {j \in 1..Len(NewTrades) :
                                  NewTrades[j].exitReason = "STOP_LOSS"}}
    \cup {"step sell" : i \in {j \in 1..Len(NewTrades) :
                                  NewTrades[j].exitReason = "LADDER_STEP_SELL"}}
    \cup {"step stop loss" : i \in {j \in 1..Len(NewTrades) :
                                       NewTrades[j].exitReason = "LADDER_STOP_LOSS"}}

\* the decisions the Bot took on the price update of token tok in the step
LiveDecisions(tok) ==
    LET pos == state.positions[tok]
        pos2 == state'.positions[tok]
        ls == state.ladderStates[tok]
        ls2 == state'.ladderStates[tok]
        closed == pos # NoPos /\ pos2 = NoPos /\ ~pos.isLadder
    IN (IF pos = NoPos /\ pos2 # NoPos /\ ~pos2.isLadder THEN {"entry"} ELSE {})
       \cup (IF pos2.isLadder /\ pos2.shares > pos.shares THEN {"step buy"} ELSE {})
       \cup (IF closed /\ ex'.trades[tok][pos.tradeId].status = "RESOLVED"
             THEN {"take profit"} ELSE {})
       \cup (IF closed /\ ex'.trades[tok][pos.tradeId].status = "STOPPED"
             THEN {"stop loss"} ELSE {})
       \cup (IF pos.isLadder /\ pos2.shares < pos.shares
                /\ Len(ls2.completedSteps) > Len(ls.completedSteps)
             THEN {"step sell"} ELSE {})
       \cup (IF pos.isLadder /\ pos2 = NoPos /\ ls2.needsRecovery /\ ~ls.needsRecovery
             THEN {"step stop loss"} ELSE {})

\* C18: fed the same sequence of price updates, the replay engine and the live
\* decision logic make the same decisions: each update triggers the same
\* entries, ladder step buys and sells, stop-losses and take-profits in both
C18_SameDecisions ==
    [][TickStep => ReplayDecisions = LiveDecisions(run'.tick.tokenId)]_vars


-----------------------------------------------------------------------------
(* Rejected and unfilled live orders *)

\* the stages of the Bot at which an order that will not fill is settled
FailingPcs == {"ent:buy", "ent:cancel", "lbs:buy", "lbs:cancel", "lss:sell"}

\* task t ends in this step with its order rejected or unfilled: nothing was
\* bought or sold and the handler returned
OrderFailed(t) ==
    /\ t \in tasks
    /\ t.pc \in FailingPcs
    /\ tasks' = tasks \ {t}
    /\ ex'.held = ex.held
    /\ ex'.wallet = ex.wallet

\* what a failed attempt had reserved
ReservedBy(t) == IF t.pc \in {"ent:buy", "ent:cancel", "lbs:buy", "lbs:cancel"}
                 THEN t.loc.amt ELSE 0

\* the live state of t's token is as it was before the attempt
AsBeforeAttempt(t) ==
    /\ state'.ladderStates[t.tokenId] = state.ladderStates[t.tokenId]
    /\ state'.positions[t.tokenId] = state.positions[t.tokenId]
    /\ state'.balance = state.balance
    /\ state'.reservedBalance = state.reservedBalance - ReservedBy(t)

\* C19: in live mode a rejected or unfilled order of an entry, a ladder step
\* buy or a ladder step sell releases the reservation and leaves the Position
\* and the LadderState exactly as they were before the attempt
C19_FailedOrderLeavesState ==
    [][\A t \in tasks : OrderFailed(t) => AsBeforeAttempt(t)]_vars

\* the half of C19 about plain entries
C19_EntryHalf ==
    [][\A t \in tasks : (OrderFailed(t) /\ t.pc \in {"ent:buy", "ent:cancel"})
                           => AsBeforeAttempt(t)]_vars


-----------------------------------------------------------------------------
(* The compounding sweep after a close *)

\* balance and savedProfit after the sweep of a balance b
SweepOf(b, saved) ==
    IF config.compoundLimit > 0 /\ b > config.compoundLimit
    THEN <<config.baseBalance, saved + (b - config.baseBalance)>>
    ELSE <<b, saved>>

\* the replay closed exactly one trade in this step and bought nothing
ReplayClosedOnly ==
    /\ TickStep
    /\ Len(engine'.trades) = Len(engine.trades) + 1
    /\ engine'.position = NoPosition
    /\ \/ engine'.ladderState = NoLadder
       \/ /\ engine'.ladderState.tokenId = engine.ladderState.tokenId
          /\ engine'.ladderState.totalCostBasis <= engine.ladderState.totalCostBasis

\* the balance the replay's close produced, before the sweep
ReplayClosedBalance ==
    engine.balance + Proceeds(engine'.trades[Len(engine'.trades)].shares,
                              engine'.trades[Len(engine'.trades)].exitPrice)

\* the live Bot closed a trade in this step and opened none
LiveClosedOnly ==
    /\ TickStep
    /\ \A tok \in LiveTokens : Len(ex'.trades[tok]) = Len(ex.trades[tok])
    /\ \E tok \in LiveTokens : \E i \in 1..Len(ex.trades[tok]) :
          ex.trades[tok][i].status = "OPEN" /\ ex'.trades[tok][i].status # "OPEN"

\* the balance the live close produced, before the sweep: a sweep moves money
\* from balance to savedProfit and nothing else does
LiveClosedBalance == state'.balance + (state'.savedProfit - state.savedProfit)

\* C20: after a close, a balance above a positive compoundLimit becomes
\* baseBalance and savedProfit grows by the old balance minus baseBalance;
\* with compoundLimit 0 or a balance at or under the limit, the sweep changes
\* neither (replay engine and paper-trading Bot)
C20_CompoundSweep ==
    [][/\ ReplayClosedOnly =>
            <<engine'.balance, engine'.savedProfit>>
               = SweepOf(ReplayClosedBalance, engine.savedProfit)
       /\ LiveClosedOnly =>
            /\ LiveClosedBalance >= state.balance
            /\ <<state'.balance, state'.savedProfit>>
                 = SweepOf(LiveClosedBalance, state.savedProfit)]_vars

\* both engines have swept: balance reset to baseBalance, the profit banked
C20_Witness ==
    /\ config.compoundLimit > 0
    /\ engine.savedProfit > 0 /\ engine.balance = config.baseBalance
    /\ state.savedProfit > 0 /\ state.balance = config.baseBalance
    /\ engine.trades # << >>

\* a close under the limit, with the sweep switched on, was left alone
C20_WitnessUnder ==
    /\ config.compoundLimit > 0
    /\ engine.trades # << >>
    /\ engine.savedProfit = 0 /\ engine.balance <= config.compoundLimit
    /\ engine.position = NoPosition /\ engine.ladderState = NoLadder


-----------------------------------------------------------------------------
(* The compounding sweep of the live Bot in real trading *)

SweepConfigs == {Compounding([BaseConfig EXCEPT !.paperTrading = p]) : p \in BOOLEAN}

\* the Bot after init() with the sweep switched on
InitSweep ==
    /\ config \in SweepConfigs
    /\ state = [balance |-> config.startingBalance, reservedBalance |-> 0,
                savedProfit |-> 0,
                positions |-> [t \in LiveTokens |-> NoPos],
                pendingEntries |-> {}, pendingExits |-> {},
                ladderStates |-> [t \in LiveTokens |-> NoLadder],
                ladderMarketLocks |-> {}]
    /\ ex = [wallet |-> config.startingBalance, held |-> [t \in LiveTokens |-> 0],
             trades |-> [t \in LiveTokens |-> << >>], ended |-> {}]
    /\ hist = [orders |-> 0, sl |-> [t \in LiveTokens |-> NoEpisode],
               steps |-> [t \in LiveTokens |-> << >>]]
    /\ tasks = {}
    /\ engine = LiveIdle
    /\ run = LiveIdle

SpecSweep == InitSweep /\ [][NextLive]_vars

\* a closing handler of the Bot returns in this step: in paper trading the
\* step that closes the trade, in real trading the step in which the balance
\* read after the sale settles
LiveCloseReturned ==
    IF config.paperTrading
    THEN \E tok \in LiveTokens : \E i \in 1..Len(ex.trades[tok]) :
            ex.trades[tok][i].status = "OPEN" /\ ex'.trades[tok][i].status # "OPEN"
    ELSE \E t \in tasks : /\ t.pc \in {"esl:bal", "etp:bal", "exp:bal", "lss:bal", "lsl:bal"}
                          /\ tasks' = tasks \ {t}

\* C20 in the live Bot: after any close the sweep has run, so that with a
\* positive compoundLimit no balance above the limit is left
C20_AfterAnyClose ==
    [][(LiveCloseReturned /\ config.compoundLimit > 0)
          => state'.balance <= config.compoundLimit]_vars

\* the paper-trading half of C20_AfterAnyClose
C20_AfterPaperClose ==
    [][(LiveCloseReturned /\ config.compoundLimit > 0 /\ config.paperTrading)
          => state'.balance <= config.compoundLimit]_vars


-----------------------------------------------------------------------------
(* Replay with the compounding sweep switched on *)

\* a baseBalance above the compoundLimit: loadConfig accepts it
BaseAboveLimit(c) == [c EXCEPT !.compoundLimit = 11000, !.baseBalance = 12500]

CompoundConfigs ==
    {Compounding([BaseConfig EXCEPT !.timeWindowMs = 6]),
     Compounding(LadderConfig(StepsOne, 6)),
     BaseAboveLimit(LadderConfig(StepsLoss, 6))}

InitCompound ==
    /\ config \in CompoundConfigs
    /\ engine = [balance |-> config.startingBalance, savedProfit |-> 0,
                 position |-> NoPosition, ladderState |-> NoLadder,
                 ladderMarketLocks |-> {}, trades |-> << >>, equityCurve |-> << >>,
                 peakBalance |-> config.startingBalance, lastTrade |-> NoTrade]
    /\ run = [now |-> 0, expiredMarkets |-> {}, tick |-> NoTick, phase |-> "loop"]
    /\ state = LiveIdle /\ ex = LiveIdle /\ tasks = LiveIdle /\ hist = LiveIdle

SpecCompound == InitCompound /\ [][NextReplay]_vars

\* the replay has closed a trade
ReplayHasClosed == engine.trades # << >>

\* what a ladder buy of this step put at risk
LadderBuyCost ==
    IF /\ engine.ladderState # NoLadder /\ engine'.ladderState # NoLadder
       /\ engine'.ladderState.tokenId = engine.ladderState.tokenId
       /\ engine'.ladderState.totalCostBasis > engine.ladderState.totalCostBasis
    THEN engine'.ladderState.totalCostBasis - engine.ladderState.totalCostBasis
    ELSE 0

\* after the first close the balance, the cost of a position entered later and
\* the cost of every later ladder buy are at most `bound`
AtRiskWithin(bound) ==
    /\ engine'.trades # << >> => engine'.balance <= bound
    /\ (engine'.trades # << >> /\ engine'.position # NoPosition)
          => Proceeds(engine'.position.shares, engine'.position.entryPrice) <= bound
    /\ ReplayHasClosed => LadderBuyCost <= bound

\* C21 (as amended): with compoundLimit > 0, after every close the tradable
\* balance, and what any later entry or ladder buy puts at risk, is at most
\* the larger of compoundLimit and baseBalance
C21_AtRiskBounded ==
    [][config.compoundLimit > 0
          => AtRiskWithin(Max(config.compoundLimit, config.baseBalance))]_vars

\* C21 as stated: the bound is compoundLimit
C21_AsStated ==
    [][config.compoundLimit > 0 => AtRiskWithin(config.compoundLimit)]_vars

\* a position entered after a sweep: the gains were banked, the entry used
\* the balance the sweep left
C21_Witness ==
    /\ config.compoundLimit > 0
    /\ engine.savedProfit > config.compoundLimit
    /\ engine.position # NoPosition
    /\ Proceeds(engine.position.shares, engine.position.entryPrice) > 0


-----------------------------------------------------------------------------
(* savedProfit over time *)

C22_ReplayHalf ==
    [][config.baseBalance <= config.compoundLimit
          => engine'.savedProfit >= engine.savedProfit]_vars

\* the replay engine's savedProfit never decreases, whatever the configuration
C22_ReplayAnyConfig == [][engine'.savedProfit >= engine.savedProfit]_vars

-----------------------------------------------------------------------------
(* Replay under the entry filter's edge cases *)

\* timestamp of the last tick of these runs
MaxFilterTime == 5

\* a short entry window, a maxEntryPrice above the profit target, slippage;
\* a window that leaves time for several trades in one market
FilterConfigs ==
    {[BaseConfig EXCEPT !.timeWindowMs = 2, !.maxEntryPrice = 995],
     [BaseConfig EXCEPT !.timeWindowMs = 2, !.slippage = 20],
     [LadderConfig(StepsOne, 2) EXCEPT !.maxEntryPrice = 995],
     [BaseConfig EXCEPT !.timeWindowMs = 6]}

\* (bestBid, bestAsk): in range, too wide a spread, under the threshold, at the
\* stop-loss, at the profit target, above the profit target
FilterQuotes == { <<640, 650>>, <<590, 650>>, <<480, 490>>, <<390, 400>>,
                  <<990, 995>>, <<995, 999>> }

InitFilter ==
    /\ config \in FilterConfigs
    /\ engine = [balance |-> config.startingBalance, savedProfit |-> 0,
                 position |-> NoPosition, ladderState |-> NoLadder,
                 ladderMarketLocks |-> {}, trades |-> << >>, equityCurve |-> << >>,
                 peakBalance |-> config.startingBalance, lastTrade |-> NoTrade]
    /\ run = [now |-> 0, expiredMarkets |-> {}, tick |-> NoTick, phase |-> "loop"]
    /\ state = LiveIdle /\ ex = LiveIdle /\ tasks = LiveIdle /\ hist = LiveIdle

\* one iteration of the replay loop on a tick of these prices
FilterTick ==
    /\ run.phase = "loop"
    /\ run.now < MaxFilterTime
    /\ \E tok \in ReplayTokens, q \in FilterQuotes :
          LET tick == [timestamp |-> run.now + 1, tokenId |-> tok,
                       marketSlug |-> marketOf[tok], bestBid |-> q[1], bestAsk |-> q[2]]
          IN Iterate(bt_runTick(engine, run.expiredMarkets, tick), tick)
    /\ UNCHANGED <<config, state, ex, tasks, hist>>

NextFilter == FilterTick \/ Finish

SpecFilter == InitFilter /\ [][NextFilter]_vars

\* the step entered a normal position
ReplayEntered ==
    /\ engine'.position # NoPosition
    /\ engine'.position # engine.position

\* the token the step entered, as a position or as a new ladder
EnteredToken ==
    IF ReplayEntered THEN engine'.position.tokenId ELSE engine'.ladderState.tokenId

\* the contract of the entry filter on a tick
FilterPasses(tick) ==
    LET timeRemaining == endDate[tick.marketSlug] - tick.timestamp IN
    /\ timeRemaining > 0 /\ timeRemaining <= config.timeWindowMs
    /\ tick.bestAsk - tick.bestBid <= config.maxSpread
    /\ config.entryThreshold <= tick.bestAsk /\ tick.bestAsk <= config.maxEntryPrice
    /\ config.riskMode = "normal" => tick.bestAsk < config.profitTarget

\* C23: the replay engine makes an entry (a normal position or a new ladder)
\* on a tick only if
\* the time remaining is in (0, timeWindowMs], the spread is at most maxSpread,
\* the ask is in [entryThreshold, maxEntryPrice] and, in normal mode, the ask
\* is under the profit target; the entry is in the tick's token
C23_EntryOnlyThroughFilter ==
    [][(TickStep /\ (ReplayEntered \/ ReplayLadderStarted))
          => /\ FilterPasses(run'.tick)
             /\ EnteredToken = run'.tick.tokenId]_vars

\* an entry was just made on a tick inside the window; an earlier tick of the
\* same market had met every condition but the time window
C23_Witness ==
    /\ run.phase = "loop"
    /\ run.tick.marketSlug = "m2"
    /\ \/ engine.position # NoPosition /\ engine.position.entryTimestamp = run.now
       \/ engine.ladderState # NoLadder /\ engine.ladderState.ladderStartTime = run.now
    /\ engine.trades = << >>
    /\ run.now = endDate["m2"] - config.timeWindowMs


-----------------------------------------------------------------------------
(* analyzeMarket: the eligible side of a market evaluation *)

\* variant of analyzeMarket that ignores the spreads
analyzeMarket_anySpread(up, down, timeRemaining) ==
    IF timeRemaining > 0 /\ timeRemaining <= config.timeWindowMs
    THEN IF up[2] >= config.entryThreshold /\ up[2] <= config.maxEntryPrice
         THEN "UP"
         ELSE IF down[2] >= config.entryThreshold /\ down[2] <= config.maxEntryPrice
         THEN "DOWN"
         ELSE "null"
    ELSE "null"

\* analyzeMarket: up and down are the (bestBid, bestAsk) of the two tokens as
\* the price overrides give them, (0, 0) for a token without an override
analyzeMarket(up, down, timeRemaining) ==
    LET upSpread == up[2] - up[1]
        downSpread == down[2] - down[1]
    IN IF timeRemaining > 0 /\ timeRemaining <= config.timeWindowMs
       THEN IF /\ up[2] >= config.entryThreshold /\ up[2] <= config.maxEntryPrice
               /\ upSpread <= config.maxSpread
            THEN "UP"
            ELSE IF /\ down[2] >= config.entryThreshold /\ down[2] <= config.maxEntryPrice
                    /\ downSpread <= config.maxSpread
            THEN "DOWN"
            ELSE "null"
       ELSE "null"

\* the prices an evaluation can be given
AnalyzeQuotes == FilterQuotes \cup { <<0, 0>> }
\* the longest time remaining of an evaluated market
MaxRemaining == 3

\* a market about to be evaluated: the prices of its two tokens and its time
\* remaining
InitAnalyze ==
    /\ config \in FilterConfigs
    /\ \E up \in AnalyzeQuotes, down \in AnalyzeQuotes, tr \in 0..MaxRemaining :
          run = [phase |-> "market", up |-> up, down |-> down, timeRemaining |-> tr,
                 eligibleSide |-> "null"]
    /\ engine = LiveIdle /\ state = LiveIdle /\ ex = LiveIdle
    /\ tasks = LiveIdle /\ hist = LiveIdle

\* findEligibleMarkets evaluates the market
Analyze ==
    /\ run.phase = "market"
    /\ run' = [run EXCEPT !.phase = "analyzed",
                          !.eligibleSide = analyzeMarket(run.up, run.down,
                                                         run.timeRemaining)]
    /\ UNCHANGED <<config, engine, state, ex, tasks, hist>>

NextAnalyze == Analyze

SpecAnalyze == InitAnalyze /\ [][NextAnalyze]_vars

\* the prices q of one side meet the price conditions of the filter
SideQualifies(q) ==
    /\ config.entryThreshold <= q[2] /\ q[2] <= config.maxEntryPrice
    /\ q[2] - q[1] <= config.maxSpread

\* C24: an evaluation of a market within its time window in which a side's
\* ask is in [entryThreshold, maxEntryPrice] with a spread of at most
\* maxSpread returns exactly one eligible side, never none; the side returned
\* meets the conditions on the prices of this evaluation, and UP comes first
C24_OneEligibleSide ==
    (/\ run.phase = "analyzed"
     /\ run.timeRemaining > 0 /\ run.timeRemaining <= config.timeWindowMs
     /\ SideQualifies(run.up) \/ SideQualifies(run.down))
       => /\ run.eligibleSide \in {"UP", "DOWN"}
          /\ run.eligibleSide = "UP" <=> SideQualifies(run.up)
          /\ run.eligibleSide = "DOWN" => SideQualifies(run.down)

\* both sides met the conditions and UP was returned
C24_Witness ==
    /\ run.phase = "analyzed"
    /\ SideQualifies(run.up) /\ SideQualifies(run.down)
    /\ run.eligibleSide = "UP"

\* only DOWN met the conditions and was returned
C24_WitnessDown ==
    /\ run.phase = "analyzed"
    /\ ~SideQualifies(run.up) /\ SideQualifies(run.down)
    /\ run.eligibleSide = "DOWN"


-----------------------------------------------------------------------------
(* The opposite-side rule *)

\* the indices of the closes of side `side` of market `market`
ClosesOf(trades, market, side) ==
    {i \in 1..Len(trades) : trades[i].marketSlug = market /\ trades[i].side = side}

\* the most recent close of that side in that market
LastCloseOf(trades, market, side) ==
    trades[CHOOSE i \in ClosesOf(trades, market, side) :
              \A j \in ClosesOf(trades, market, side) : j <= i]

\* the most recent close of that side in that market was a win
LastCloseWon(trades, market, side) ==
    /\ ClosesOf(trades, market, side) # {}
    /\ LastCloseOf(trades, market, side).exitPrice >= config.profitTarget

\* the most recent close of that side in that market was lost to a stop-loss
LastCloseStopped(trades, market, side) ==
    /\ ClosesOf(trades, market, side) # {}
    /\ LastCloseOf(trades, market, side).exitReason \in {"STOP_LOSS", "LADDER_STOP_LOSS"}

SideOf(tokenId) == IF tokenId = upTokenId[marketOf[tokenId]] THEN "UP" ELSE "DOWN"

\* the replay engine is free to enter and the tick meets the entry filter
FreeToEnter(tick) ==
    /\ engine.position = NoPosition /\ engine.ladderState = NoLadder
    /\ engine.balance >= MinBuyAmount
    /\ tick.marketSlug \notin engine.ladderMarketLocks
    /\ FilterPasses(tick)

\* C25: no entry is made on a side of a market whose most recent close was a
\* win (at or above the profit target); an entry that the filter lets through
\* is made when the most recent close of that side was lost to a stop-loss
C25_OppositeSideRule ==
    [][TickStep =>
         /\ (ReplayEntered \/ ReplayLadderStarted)
               => ~LastCloseWon(engine.trades, run'.tick.marketSlug,
                                SideOf(run'.tick.tokenId))
         /\ (/\ config.riskMode = "normal"
             /\ FreeToEnter(run'.tick)
             /\ LastCloseStopped(engine.trades, run'.tick.marketSlug,
                                 SideOf(run'.tick.tokenId)))
               => ReplayEntered]_vars

\* the rule against the engine's last trade only: no entry on the side of the
\* market that the last trade of all won
C25_LastTradeOnly ==
    [][(TickStep /\ (ReplayEntered \/ ReplayLadderStarted))
          => ~(/\ engine.lastTrade # NoTrade
               /\ engine.lastTrade.marketSlug = run'.tick.marketSlug
               /\ engine.lastTrade.side = SideOf(run'.tick.tokenId)
               /\ engine.lastTrade.pnl > 0)]_vars


-----------------------------------------------------------------------------
(* Normal mode: take-profit and stop-loss of the replay *)

\* the tick of this step is one of the held position's token, before the end
\* of its market
HeldTick ==
    /\ TickStep
    /\ config.riskMode = "normal"
    /\ engine.position # NoPosition
    /\ run'.tick.tokenId = engine.position.tokenId
    /\ run'.tick.timestamp < endDate[engine.position.marketSlug]

\* the step closed the held position, for `reason` at `price`, on its tick
ClosedAs(reason, price) ==
    /\ Len(engine'.trades) = Len(engine.trades) + 1
    /\ engine'.position = NoPosition
    /\ LET trade == engine'.trades[Len(engine'.trades)] IN
       /\ trade.tokenId = engine.position.tokenId
       /\ trade.exitReason = reason
       /\ trade.exitPrice = price
       /\ trade.exitTimestamp = run'.tick.timestamp

\* C26 (as amended): a normal-mode position closes as take-profit on the first
\* tick of its token, before its market's end, with bid >= profitTarget; the
\* exit price recorded is the profit target, whatever the bid
C26_TakeProfitAtTarget ==
    [][(HeldTick /\ run'.tick.bestBid >= config.profitTarget)
          => ClosedAs("PROFIT_TARGET", config.profitTarget)]_vars

\* C26 as stated: the exit price recorded is the tick's bid
C26_AsStated ==
    [][(HeldTick /\ run'.tick.bestBid >= config.profitTarget)
          => ClosedAs("PROFIT_TARGET", run'.tick.bestBid)]_vars

\* a take-profit was just taken on a bid above the target
C26_Witness ==
    /\ engine.trades # << >>
    /\ engine.lastTrade.exitReason = "PROFIT_TARGET"
    /\ engine.lastTrade.exitTimestamp = run.now
    /\ run.tick.bestBid > config.profitTarget

\* the update q of token tok breaches the stop-loss of a normal-mode position
Breach(tok, q) ==
    /\ ~isLadderMode
    /\ state.positions[tok] # NoPos
    /\ ~state.positions[tok].isLadder
    /\ q[1] <= config.stopLoss

\* the step removed the position of tok and closed its trade as stopped
StoppedOut(tok) ==
    /\ state'.positions[tok] = NoPos
    /\ ex'.trades[tok][state.positions[tok].tradeId].status = "STOPPED"
    /\ ex.trades[tok][state.positions[tok].tradeId].status = "OPEN"

\* the calls of onPrice for tok that await the sell order of a stop-loss
SellAwaited(ts, tok) ==
    {t \in ts : t.kind = "price" /\ t.op = "SLR" /\ t.tokenId = tok /\ t.pc = "esl:sell"}

\* C27 (as amended): the first price update of a token whose bid is at or
\* below stopLoss closes its normal-mode position as stopped within that
\* update's handling in paper trading; in real trading the same update places
\* the market sell unless the bid is 0 or another exit of the token is in
\* flight, and when the sell settles the position is either closed as stopped
\* or left as it was
C27_StopLossAtOnce ==
    [][\A tok \in LiveTokens :
          /\ \A q \in QuotesFor(tok) :
                (Breach(tok, q) /\ Update(tok, q))
                   => IF config.paperTrading THEN StoppedOut(tok)
                      ELSE \/ q[1] = 0
                           \/ exitGuardHeld(state, tok)
                           \/ SellAwaited(tasks', tok) # SellAwaited(tasks, tok)
          /\ \A t \in SellAwaited(tasks, tok) :
                t \notin tasks'
                   => StoppedOut(tok) \/ state'.positions[tok] = state.positions[tok]]_vars

\* C27 as stated: in any mode of trading the handling of such an update ends
\* with the position closed as stopped
C27_AsStated ==
    [][\A tok \in LiveTokens :
          /\ \A q \in QuotesFor(tok) :
                (Breach(tok, q) /\ Update(tok, q))
                   => StoppedOut(tok) \/ SellAwaited(tasks', tok) # SellAwaited(tasks, tok)
          /\ \A t \in SellAwaited(tasks, tok) :
                t \notin tasks' => StoppedOut(tok)]_vars

\* the replay closes the held position as a stop-loss on the first tick of its
\* token, before its market's end, with bid <= stopLoss
C27_ReplayHalf ==
    [][(HeldTick /\ run'.tick.bestBid <= config.stopLoss)
          => ClosedAs("STOP_LOSS",
                      Max((run'.tick.bestBid * (1000 - config.slippage)) \div 1000,
                          LostExitPrice))]_vars

\* a paper stop-loss has just closed the position of a token
C27_Witness ==
    /\ config.paperTrading
    /\ ~isLadderMode
    /\ \E tok \in LiveTokens :
         /\ hist.sl[tok].closes = 1
         /\ ~hist.sl[tok].open
         /\ state.positions[tok] = NoPos

-----------------------------------------------------------------------------
(* Normal mode: shares of an entry and PnL of a close in the replay *)

\* the step entered a normal-mode position on its tick
EntryStep ==
    /\ TickStep
    /\ config.riskMode = "normal"
    /\ engine.position = NoPosition
    /\ engine'.position # NoPosition

\* the step closed the normal-mode position
CloseStep ==
    /\ config.riskMode = "normal"
    /\ engine.position # NoPosition
    /\ Len(engine'.trades) = Len(engine.trades) + 1

\* the trade of the close is the position's, and its PnL is
\* (exitPrice - entryPrice) * shares of what it records
PnLOfRecord ==
    LET trade == engine'.trades[Len(engine'.trades)] IN
    /\ trade.entryPrice = engine.position.entryPrice
    /\ trade.shares = engine.position.shares
    /\ trade.pnl = ((trade.exitPrice - trade.entryPrice) * trade.shares) \div 100

\* C28 (as amended): a normal-mode entry with balance B on a tick with ask A
\* fills at A' = min(A * (1 + slippage), 0.99) and gives shares = B / A'; on
\* close the recorded PnL is (exitPrice - A') * shares of the recorded prices
C28_SharesAndPnL ==
    [][/\ EntryStep =>
            LET fill == Min((run'.tick.bestAsk * (1000 + config.slippage)) \div 1000,
                            MaxFillPrice)
            IN /\ engine'.position.entryPrice = fill
               /\ engine'.position.shares = SharesFor(engine.balance, fill)
       /\ CloseStep => PnLOfRecord]_vars

\* C28 as stated: the entry gives shares = B / A at the tick's ask A
C28_AsStated ==
    [][/\ EntryStep =>
            /\ engine'.position.entryPrice = run'.tick.bestAsk
            /\ engine'.position.shares = SharesFor(engine.balance, run'.tick.bestAsk)
       /\ CloseStep => PnLOfRecord]_vars

\* a position entered with slippage on the ask has been closed
C28_Witness ==
    /\ config.riskMode = "normal"
    /\ config.slippage > 0
    /\ engine.trades # << >>
    /\ engine.lastTrade.pnl # 0
    /\ engine.position = NoPosition

-----------------------------------------------------------------------------
(* Price updates without a usable bid or ask *)

\* C29: a price update whose bid or ask is zero triggers no stop-loss,
\* take-profit, ladder step or entry: positions, ladders, balance and trades
\* are as they were
C29_ZeroQuoteIgnored ==
    [][\A tok \in LiveTokens : \A q \in QuotesFor(tok) :
          ((q[1] = 0 \/ q[2] = 0) /\ Update(tok, q))
             => /\ state'.positions = state.positions
                /\ state'.ladderStates = state.ladderStates
                /\ state'.balance = state.balance
                /\ ex'.trades = ex.trades]_vars

-----------------------------------------------------------------------------
(* Order of the checks of one price notification *)

\* the call t of onPrice is in the check `op` of its token and has exactly the
\* checks `rest` still to run, for the same token
InCheck(t, op, rest) ==
    /\ t.op = op
    /\ Len(t.todo) = Len(rest)
    /\ \A i \in 1..Len(rest) : t.todo[i] = <<rest[i], t.tokenId>>

\* the suspended calls of onPrice
PriceCalls == {t \in tasks : t.kind = "price"}

\* C30 (as amended): one price notification runs its checks for the token one
\* after the other, each finishing before the next begins: in normal mode the
\* stop-loss check, the take-profit check, the entry check; in ladder mode the
\* step check, then the stop-loss check, then the entry check
C30_ChecksInOrder ==
    \A t \in PriceCalls :
       IF isLadderMode
       THEN \/ InCheck(t, "LSR", <<"SLR", "ENR">>)
            \/ InCheck(t, "SLR", <<"ENR">>)
            \/ InCheck(t, "ENR", << >>)
       ELSE \/ InCheck(t, "SLR", <<"TPR", "ENR">>)
            \/ InCheck(t, "TPR", <<"ENR">>)
            \/ InCheck(t, "ENR", << >>)

\* C30 as stated: in ladder mode too the stop-loss check comes first and the
\* step check second
C30_AsStated ==
    \A t \in PriceCalls :
       IF isLadderMode
       THEN \/ InCheck(t, "SLR", <<"LSR", "ENR">>)
            \/ InCheck(t, "LSR", <<"ENR">>)
            \/ InCheck(t, "ENR", << >>)
       ELSE \/ InCheck(t, "SLR", <<"TPR", "ENR">>)
            \/ InCheck(t, "TPR", <<"ENR">>)
            \/ InCheck(t, "ENR", << >>)

\* in ladder mode a notification waits in its step check, the stop-loss check
\* and the entry check still to run
C30_Witness ==
    /\ isLadderMode
    /\ \E t \in PriceCalls : InCheck(t, "LSR", <<"SLR", "ENR">>)

\* a notification waits in its second check in normal mode, the entry check
\* still to run
C30_WitnessNormal ==
    /\ ~isLadderMode
    /\ \E t \in PriceCalls : InCheck(t, "TPR", <<"ENR">>)

-----------------------------------------------------------------------------
(* Ladder steps of the replay: skip, buy, sell *)

\* a first step whose fixed amount is below the minimum, then a full-size step
StepsSmall == << Step("step1", 400, TRUE, 600, "fixed", 500, 700, "percent", 100),
                 Step("step2", 400, TRUE, 600, "percent", 100, 700, "percent", 100) >>

\* two steps that each sell all of the shares held
StepsFull == << Step("step1", 400, TRUE, 600, "percent", 50, 700, "percent", 100),
                Step("step2", 400, TRUE, 600, "percent", 100, 700, "percent", 100) >>

LadderStepConfigs ==
    {LadderConfig(StepsSmall, 6), LadderConfig(StepsTwo, 6), LadderConfig(StepsHalf, 6),
     LadderConfig(StepsFull, 6),
     [LadderConfig(StepsDis, 6) EXCEPT !.slippage = 20]}

InitLadder ==
    /\ config \in LadderStepConfigs
    /\ engine = [balance |-> config.startingBalance, savedProfit |-> 0,
                 position |-> NoPosition, ladderState |-> NoLadder,
                 ladderMarketLocks |-> {}, trades |-> << >>, equityCurve |-> << >>,
                 peakBalance |-> config.startingBalance, lastTrade |-> NoTrade]
    /\ run = [now |-> 0, expiredMarkets |-> {}, tick |-> NoTick, phase |-> "loop"]
    /\ state = LiveIdle /\ ex = LiveIdle /\ tasks = LiveIdle /\ hist = LiveIdle

\* (bestBid, bestAsk) of the ticks of these runs: at, above, within the
\* tolerance of and below the buy triggers, at the sell triggers, at the
\* step stop-loss
StepQuotes == { <<640, 650>>, <<590, 600>>, <<595, 605>>, <<700, 710>>,
                <<480, 500>>, <<390, 400>> }

\* one iteration of the loop of run on a tick of these runs
LadderTick ==
    /\ run.phase = "loop"
    /\ run.now < MaxTime
    /\ \E tok \in ReplayTokens, q \in StepQuotes :
          LET tick == [timestamp |-> run.now + 1, tokenId |-> tok,
                       marketSlug |-> marketOf[tok], bestBid |-> q[1], bestAsk |-> q[2]]
          IN Iterate(bt_runTick(engine, run.expiredMarkets, tick), tick)
    /\ UNCHANGED <<config, state, ex, tasks, hist>>

NextLadder == LadderTick \/ Finish

SpecLadder == InitLadder /\ [][NextLadder]_vars

\* index (1-based) of the active step of a ladder with a step left
ActiveIndex(ls, steps) ==
    CHOOSE i \in OpenSteps(ls, steps) : \A j \in OpenSteps(ls, steps) : i <= j

\* the tick of this step reaches the step logic of the resident ladder: it is
\* one of the ladder's token, before its market's end, the ladder is active,
\* out of recovery, has a step left, and no step stop-loss fires
StepTick ==
    /\ TickStep
    /\ config.riskMode = "ladder"
    /\ engine.ladderState # NoLadder
    /\ run'.tick.tokenId = engine.ladderState.tokenId
    /\ run'.tick.timestamp < endDate[engine.ladderState.marketSlug]
    /\ engine.ladderState.status = "active"
    /\ ~engine.ladderState.needsRecovery
    /\ OpenSteps(engine.ladderState, config.ladderSteps) # {}
    /\ ~(/\ engine.ladderState.totalShares - engine.ladderState.totalSharesSold > DustShares
         /\ run'.tick.bestBid > 0
         /\ run'.tick.bestBid <= ActiveStep(engine.ladderState, config.ladderSteps).stopLoss)

\* the tick meets the buy trigger of the active step of a ladder in buy phase
BuyDue ==
    /\ StepTick
    /\ engine.ladderState.currentStepPhase = "buy"
    /\ run'.tick.bestAsk > 0
    /\ run'.tick.bestAsk <= ActiveStep(engine.ladderState, config.ladderSteps).buy.triggerPrice

\* the amount a buy step spends of the balance
StepAmount(step, balance) ==
    IF step.buy.sizeType = "percent" THEN (balance * step.buy.sizeValue) \div 100
    ELSE Min(step.buy.sizeValue, balance)

\* C31: a buy step of the replay whose computed amount is below the minimum
\* tradable size is added to the skipped set with a recorded reason, the ladder
\* advances to the next step in buy phase, and balance, shares and cost basis
\* are unchanged
C31_SmallStepSkipped ==
    [][(/\ BuyDue
        /\ StepAmount(ActiveStep(engine.ladderState, config.ladderSteps), engine.balance)
              < MinBuyAmount)
          => LET ls == engine.ladderState
                 step == ActiveStep(ls, config.ladderSteps)
                 after == engine'.ladderState
             IN /\ after.skippedSteps = Append(ls.skippedSteps, step.id)
                /\ after.skippedReasons
                      = Append(ls.skippedReasons, <<step.id, "insufficient_balance">>)
                /\ after.currentStepIndex = ActiveIndex(ls, config.ladderSteps)
                /\ after.currentStepPhase = "buy"
                /\ after.completedSteps = ls.completedSteps
                /\ engine'.balance = engine.balance
                /\ after.totalShares = ls.totalShares
                /\ after.totalCostBasis = ls.totalCostBasis
                /\ engine'.trades = engine.trades]_vars

\* the first step has been skipped for its amount and the ladder is at the next
\* step
C31_Witness ==
    /\ engine.ladderState # NoLadder
    /\ engine.ladderState.skippedSteps = << "step1" >>
    /\ engine.ladderState.skippedReasons = << <<"step1", "insufficient_balance">> >>
    /\ engine.ladderState.currentStepIndex = 1

\* the step bought shares for the ladder, resident or started on this tick
\* (a tick that finds the resident ladder's market ended closes that ladder
\* first: not the case here)
BoughtStep ==
    /\ TickStep
    /\ engine.ladderState # NoLadder
          => run'.tick.timestamp < endDate[engine.ladderState.marketSlug]
    /\ engine'.ladderState # NoLadder
    /\ engine'.ladderState.totalShares
          > (IF engine.ladderState.tokenId = engine'.ladderState.tokenId
             THEN engine.ladderState.totalShares ELSE 0)

\* the price a buy at the tick's ask fills at
FillPrice(ask) == Min((ask * (1000 + config.slippage)) \div 1000, MaxFillPrice)

\* what a buy of the active step leaves: the amount is taken from the balance
\* and added to the cost basis, the shares it buys at `price` are added to the
\* shares, the average entry price is cost basis / shares, and the ladder is
\* in the sell phase of that step
BoughtAt(price) ==
    LET ls == engine.ladderState
        step == ActiveStep(ls, config.ladderSteps)
        amount == StepAmount(step, engine.balance)
        after == engine'.ladderState
    IN /\ amount >= MinBuyAmount
       /\ engine'.balance = engine.balance - amount
       /\ after.totalShares = ls.totalShares + SharesFor(amount, price)
       /\ after.totalCostBasis = ls.totalCostBasis + amount
       /\ after.averageEntryPrice = Div(after.totalCostBasis * 100, after.totalShares)
       /\ after.currentStepPhase = "sell"
       /\ ActiveStep(after, config.ladderSteps) = step
       /\ after.currentStepIndex < ActiveIndex(ls, config.ladderSteps)
       /\ after.completedSteps = ls.completedSteps
       /\ after.skippedSteps = ls.skippedSteps

\* the trigger condition of the buy: a resident ladder in buy phase buys at an
\* ask at or below the trigger of its active step
ResidentBuy ==
    /\ engine.ladderState # NoLadder
    /\ engine.ladderState.currentStepPhase = "buy"
    /\ run'.tick.bestAsk
          <= ActiveStep(engine.ladderState, config.ladderSteps).buy.triggerPrice

\* a ladder started on this tick buys its first step at an ask from the
\* trigger to the tolerance above it
StartingBuy ==
    /\ engine.ladderState = NoLadder
    /\ run'.tick.bestAsk >= FirstEnabledStep.buy.triggerPrice
    /\ run'.tick.bestAsk <= FirstEnabledStep.buy.triggerPrice + PriceTolerance

\* C32 (as amended): a buy step of the replay fires only for a resident
\* ladder in buy phase on an ask at or below the active step's buy trigger, or
\* as the first step of a ladder started on an ask within the tolerance above
\* that trigger; it spends the step's amount of the balance, buys at the
\* ask with slippage (at most 0.99), and leaves the ladder in the sell
\* phase of that step with averageEntryPrice = totalCostBasis / totalShares
C32_BuyStep ==
    [][BoughtStep => /\ ResidentBuy \/ StartingBuy
                     /\ BoughtAt(FillPrice(run'.tick.bestAsk))]_vars

\* C32 as stated: only on an ask at or below the trigger, buying at the ask
C32_AsStated ==
    [][BoughtStep => /\ engine.ladderState.currentStepPhase = "buy"
                     /\ run'.tick.bestAsk
                           <= ActiveStep(engine.ladderState, config.ladderSteps).buy.triggerPrice
                     /\ BoughtAt(run'.tick.bestAsk)]_vars

\* a resident ladder has just bought its second step, on top of shares it held
C32_Witness ==
    /\ engine.ladderState # NoLadder
    /\ engine.ladderState.currentStepPhase = "sell"
    /\ engine.ladderState.currentStepIndex = 1
    /\ engine.ladderState.lastStepTime = run.now
    /\ engine.ladderState.totalShares > engine.ladderState.totalSharesSold
    /\ engine.ladderState.totalSharesSold > 0

\* the shares a sell of `step` sells of the shares the ladder holds
SellShares(step, ls, bid) ==
    LET remaining == ls.totalShares - ls.totalSharesSold IN
    IF step.sell.sizeType = "percent" THEN (remaining * step.sell.sizeValue) \div 100
    ELSE Min(SharesFor(step.sell.sizeValue, bid), remaining)

\* the tick meets the sell trigger of the active step of a ladder in sell
\* phase that has shares to sell
SellDue ==
    /\ StepTick
    /\ engine.ladderState.currentStepPhase = "sell"
    /\ run'.tick.bestBid > 0
    /\ run'.tick.bestBid >= ActiveStep(engine.ladderState, config.ladderSteps).sell.triggerPrice
    /\ SellShares(ActiveStep(engine.ladderState, config.ladderSteps), engine.ladderState,
                  run'.tick.bestBid) >= DustShares

\* the step recorded a step-sell trade
SoldStep ==
    /\ TickStep
    /\ Len(engine'.trades) > Len(engine.trades)
    /\ engine'.trades[Len(engine'.trades)].exitReason = "LADDER_STEP_SELL"

\* exactly one trade is recorded, of the active step, with
\* PnL = proceeds - proportional cost basis; the step is completed and the
\* ladder is in the buy phase of the next step
SoldAtBid ==
    LET ls == engine.ladderState
        step == ActiveStep(ls, config.ladderSteps)
        shares == SellShares(step, ls, run'.tick.bestBid)
        n == Len(engine'.trades)
        after == engine'.ladderState
    IN /\ n = Len(engine.trades) + 1
       /\ SubSeq(engine'.trades, 1, n - 1) = engine.trades
       /\ engine'.trades[n].exitReason = "LADDER_STEP_SELL"
       /\ engine'.trades[n].ladderStepId = step.id
       /\ engine'.trades[n].shares = shares
       /\ engine'.trades[n].exitPrice = run'.tick.bestBid
       /\ engine'.trades[n].pnl
             = Proceeds(shares, run'.tick.bestBid)
                 - (shares * ls.totalCostBasis) \div ls.totalShares
       /\ after.completedSteps = Append(ls.completedSteps, step.id)
       /\ after.skippedSteps = ls.skippedSteps
       /\ after.currentStepIndex = ActiveIndex(ls, config.ladderSteps)
       /\ after.currentStepPhase = "buy"

SellsLast ==
    LET ls == engine.ladderState
        step == ActiveStep(ls, config.ladderSteps)
    IN (ls.totalShares - ls.totalSharesSold) - SellShares(step, ls, run'.tick.bestBid)
          < DustShares

\* C34: when a sell step of the replay sells the last remaining shares of a
\* ladder, totalShares, totalCostBasis, totalSharesSold and totalSellProceeds
\* are reset to zero, while the completed steps (with the step just sold), the
\* skipped steps and the step index (advanced by the sell) are kept
C34_CycleReset ==
    [][(SellDue /\ SellsLast)
          => LET ls == engine.ladderState
                 step == ActiveStep(ls, config.ladderSteps)
                 after == engine'.ladderState
             IN /\ after.totalShares = 0
                /\ after.totalCostBasis = 0
                /\ after.totalSharesSold = 0
                /\ after.totalSellProceeds = 0
                /\ after.completedSteps = Append(ls.completedSteps, step.id)
                /\ after.skippedSteps = ls.skippedSteps
                /\ after.currentStepIndex = ActiveIndex(ls, config.ladderSteps)
                /\ after.tokenId = ls.tokenId]_vars

\* a buy step that follows such a sale starts from a fresh cost basis: the
\* ladder holds the shares and the cost of this buy only
C34_FreshCostBasis ==
    [][(BoughtStep /\ engine.ladderState # NoLadder
           /\ engine.ladderState.completedSteps # << >>
           /\ engine.ladderState.totalShares = 0)
          => /\ engine'.ladderState.totalCostBasis = engine.balance - engine'.balance
             /\ engine'.ladderState.totalSharesSold = 0
             /\ engine'.ladderState.completedSteps = engine.ladderState.completedSteps]_vars

\* the first step has sold the last shares of the ladder, which waits in the
\* buy phase of its second step
C34_Witness ==
    /\ run.phase = "loop"
    /\ engine.ladderState # NoLadder
    /\ engine.ladderState.completedSteps = << "step1" >>
    /\ engine.ladderState.currentStepIndex = 1
    /\ engine.ladderState.currentStepPhase = "buy"
    /\ engine.ladderState.totalShares = 0
    /\ engine.ladderState.totalCostBasis = 0
    /\ engine.lastTrade.exitReason = "LADDER_STEP_SELL"
    /\ engine.lastTrade.exitTimestamp = run.now

\* the second step has bought after the first sold everything
C34_WitnessFresh ==
    /\ engine.ladderState # NoLadder
    /\ engine.ladderState.completedSteps = << "step1" >>
    /\ engine.ladderState.currentStepPhase = "sell"
    /\ engine.ladderState.totalShares > 0
    /\ engine.ladderState.totalSharesSold = 0


-----------------------------------------------------------------------------
(* Ladder persistence and what a restart restores *)

\* the OPEN ladder trades of a token, oldest first
RECURSIVE openLadderFrom(_, _, _)
openLadderFrom(w, tokenId, i) ==
    IF i > Len(w.x.trades[tokenId]) THEN << >>
    ELSE (IF w.x.trades[tokenId][i].status = "OPEN"
             /\ w.x.trades[tokenId][i].ladder_step # "null"
          THEN << i >> ELSE << >>)
         \o openLadderFrom(w, tokenId, i + 1)

\* the sum of a column over the trades with these ids
RECURSIVE sumOver(_, _, _, _)
sumOver(w, tokenId, ids, costs) ==
    IF ids = << >> THEN 0
    ELSE (IF costs THEN w.x.trades[tokenId][Head(ids)].cost_basis
          ELSE w.x.trades[tokenId][Head(ids)].shares)
         + sumOver(w, tokenId, Tail(ids), costs)

\* restoreLadderStates, for one token: the ladder state parsed from the first
\* open ladder trade that carries one, with the open trades as its trade ids;
\* a minimal state when no trade carries one; no ladder without an open trade
restoreLadderStates(w, tokenId) ==
    LET sortedTrades == openLadderFrom(w, tokenId, 1)
        withState == SelectSeq(sortedTrades,
                               LAMBDA i : w.x.trades[tokenId][i].ladder_state_json # NoJson)
        raw == w.x.trades[tokenId][withState[1]].ladder_state_json.json
        totalShares == sumOver(w, tokenId, sortedTrades, FALSE)
        totalCostBasis == sumOver(w, tokenId, sortedTrades, TRUE)
    IN IF sortedTrades = << >> THEN NoLadder
       ELSE IF withState # << >>
       THEN [raw EXCEPT !.tokenId = tokenId, !.tradeIds = sortedTrades]
       ELSE [NoLadder EXCEPT
               !.tokenId = tokenId,
               !.side = w.x.trades[tokenId][sortedTrades[1]].side,
               !.marketSlug = w.x.trades[tokenId][sortedTrades[1]].market_slug,
               !.totalShares = totalShares, !.totalCostBasis = totalCostBasis,
               !.averageEntryPrice = IF totalShares > 0
                                     THEN Div(totalCostBasis * 100, totalShares) ELSE 0,
               !.ladderStartTime = DateNow, !.lastStepTime = DateNow,
               !.tradeIds = sortedTrades, !.status = "active"]

\* what a restart has to resume: the step index and phase, the completed and
\* skipped steps, the aggregates and the recovery flag
Resumable(ls) ==
    << ls.currentStepIndex, ls.currentStepPhase, ls.completedSteps, ls.skippedSteps,
       ls.totalShares, ls.totalCostBasis, ls.averageEntryPrice, ls.totalSharesSold,
       ls.totalSellProceeds, ls.needsRecovery >>

\* no call of the Bot is in flight: every handler has run to its end
LadderAtRest(tok) == tasks = {}

\* C35: whenever a ladder of the Bot is at rest, what a restart restores from
\* the trades table equals the ladder in memory in step index, phase, completed
\* and skipped steps, aggregates and recovery flag
C35_SnapshotCurrent ==
    \A tok \in LiveTokens :
       state.ladderStates[tok] # NoLadder /\ LadderAtRest(tok)
          => Resumable(restoreLadderStates(W, tok)) = Resumable(state.ladderStates[tok])


-----------------------------------------------------------------------------
(* The replay's balance against its recorded trades *)

RECURSIVE SumPnl(_)
SumPnl(trades) == IF trades = << >> THEN 0 ELSE Head(trades).pnl + SumPnl(Tail(trades))

\* the replay holds nothing: no position and no unsold ladder shares
NothingOpen ==
    /\ engine.position = NoPosition
    /\ engine.ladderState.totalShares - engine.ladderState.totalSharesSold < DustShares

\* what the whole-number arithmetic of shares and proceeds can lose per trade
RoundingSlack == 12

\* C36: whenever the replay holds nothing, balance + savedProfit equals the
\* starting balance plus the sum of the PnL of the recorded trades (up to the
\* rounding of the whole-number arithmetic)
C36_BalanceIsSumOfPnL ==
    NothingOpen
       => Abs(engine.balance + engine.savedProfit
              - (config.startingBalance + SumPnl(engine.trades)))
            <= RoundingSlack * Len(engine.trades)


-----------------------------------------------------------------------------
(* The close paths of the Bot on a market that ends *)

\* normal mode, paper and real trading
CloseConfigs == {[BaseConfig EXCEPT !.paperTrading = p] : p \in BOOLEAN}

InitClose ==
    /\ config \in CloseConfigs
    /\ state = [balance |-> config.startingBalance, reservedBalance |-> 0,
                savedProfit |-> 0,
                positions |-> [t \in LiveTokens |-> NoPos],
                pendingEntries |-> {}, pendingExits |-> {},
                ladderStates |-> [t \in LiveTokens |-> NoLadder],
                ladderMarketLocks |-> {}]
    /\ ex = [wallet |-> config.startingBalance, held |-> [t \in LiveTokens |-> 0],
             trades |-> [t \in LiveTokens |-> << >>], ended |-> {}]
    /\ hist = [orders |-> 0, sl |-> [t \in LiveTokens |-> NoEpisode],
               steps |-> [t \in LiveTokens |-> << >>]]
    /\ tasks = {}
    /\ engine = LiveIdle
    /\ run = LiveIdle

\* a price update of any token, also of one whose market has reached its end:
\* the price stream has no notion of the end of a market
PriceAtEnd ==
    /\ Cardinality(tasks) < MaxTasks
    /\ \E tok \in LiveTokens : \E q \in NormalQuotes : Update(tok, q)

NextClose ==
    PriceAtEnd \/ DispatchTick \/ Resume \/ ResumeSync \/ ResumeScan \/ EndMarket

SpecClose == InitClose /\ [][NextClose]_vars

RECURSIVE SumCost(_)
SumCost(rows) == IF rows = << >> THEN 0 ELSE Head(rows).cost_basis + SumCost(Tail(rows))

RECURSIVE SumProceeds(_)
SumProceeds(rows) ==
    IF rows = << >> THEN 0
    ELSE (IF Head(rows).status = "OPEN" THEN 0
          ELSE Proceeds(Head(rows).shares, Head(rows).exit_price))
         + SumProceeds(Tail(rows))

\* C37: over all close paths a trade is closed at most once, and in paper
\* trading, once no call is in flight, the balance holds the starting balance
\* less the cost of every entry plus the proceeds of every closed trade once
C37_ClosedAtMostOnce ==
    /\ \A tok \in LiveTokens : \A i \in 1..Len(ex.trades[tok]) :
          ex.trades[tok][i].closes <= 1
    /\ config.paperTrading /\ tasks = {}
          => state.balance + state.savedProfit
               = config.startingBalance
                 + SumProceeds(ex.trades["m1up"] \o ex.trades["m2up"])
                 - SumCost(ex.trades["m1up"] \o ex.trades["m2up"])


-----------------------------------------------------------------------------
(* BacktestEngine: the drawdown figures of the result *)

\* calculateMaxDrawdown: the loop over the equity curve from the point i on;
\* acc is [peak, maxDrawdown, maxDrawdownPercent], percentages in thousandths
RECURSIVE maxDrawdownFrom(_, _, _)
maxDrawdownFrom(curve, i, acc) ==
    IF i > Len(curve) THEN acc
    ELSE LET peak == Max(acc.peak, curve[i].balance)
             drawdown == peak - curve[i].balance
             drawdownPercent == IF peak > 0 THEN (drawdown * 1000) \div peak ELSE 0
         IN maxDrawdownFrom(curve, i + 1,
                IF drawdown > acc.maxDrawdown
                THEN [peak |-> peak, maxDrawdown |-> drawdown,
                      maxDrawdownPercent |-> drawdownPercent]
                ELSE [acc EXCEPT !.peak = peak])

bt_calculateMaxDrawdown(e) ==
    maxDrawdownFrom(e.equityCurve, 1,
                    [peak |-> config.startingBalance, maxDrawdown |-> 0,
                     maxDrawdownPercent |-> 0])

\* calculateDrawdownCurve: the drawdown at each point of the equity curve, in
\* thousandths of the peak so far
RECURSIVE drawdownCurveFrom(_, _, _)
drawdownCurveFrom(curve, i, peak) ==
    IF i > Len(curve) THEN << >>
    ELSE LET peak1 == Max(peak, curve[i].balance)
         IN << [timestamp |-> curve[i].timestamp,
                drawdown |-> IF peak1 > 0
                             THEN ((peak1 - curve[i].balance) * 1000) \div peak1 ELSE 0] >>
            \o drawdownCurveFrom(curve, i + 1, peak1)

bt_calculateDrawdownCurve(e) == drawdownCurveFrom(e.equityCurve, 1, config.startingBalance)

\* no trade of the run has lost
NoLosingTrade == \A i \in 1..Len(engine.trades) : engine.trades[i].pnl >= 0

\* C38: the result of a run without a losing trade reports a maximum drawdown
\* of zero and a drawdown curve that is zero at every point
C38_NoLossNoDrawdown ==
    run.phase = "done" /\ NoLosingTrade
       => /\ bt_calculateMaxDrawdown(engine).maxDrawdown = 0
          /\ bt_calculateMaxDrawdown(engine).maxDrawdownPercent = 0
          /\ \A i \in 1..Len(engine.equityCurve) :
                bt_calculateDrawdownCurve(engine)[i].drawdown = 0


-----------------------------------------------------------------------------
(* The shares of a ladder *)

\* a ladder has sold no more than it bought, and is in its sell phase only
\* with unsold shares
SharesInOrder(ls) ==
    /\ ls.totalSharesSold <= ls.totalShares
    /\ ls.currentStepPhase = "sell" => ls.totalShares - ls.totalSharesSold > 0

\* C39: whenever no call of the Bot is in flight, every ladder has sold no
\* more shares than it bought and is in its sell phase only while it holds
\* unsold shares
C39_SharesInOrder ==
    tasks = {} => \A tok \in LiveTokens : SharesInOrder(state.ladderStates[tok])

\* the same of the replay's ladder, after every tick
C39_ReplayHalf == SharesInOrder(engine.ladderState)


-----------------------------------------------------------------------------
(* The order of the replay's trade list *)

\* C40: the trades of a replay run are listed in non-decreasing order of their
\* exit timestamps, and every trade was entered no later than it was closed
\* and closed no later than the end of its market
C40_TradesInTimeOrder ==
    \A i \in 1..Len(engine.trades) :
       /\ engine.trades[i].entryTimestamp <= engine.trades[i].exitTimestamp
       /\ engine.trades[i].exitTimestamp <= endDate[engine.trades[i].marketSlug]
       /\ i > 1 => engine.trades[i - 1].exitTimestamp <= engine.trades[i].exitTimestamp

\* a run has ended with a trade of the first market closed at that market's
\* end, followed in the list by a trade of the second market that was entered
\* and closed later
C40_Witness ==
    /\ run.phase = "done"
    /\ \E i \in 1..Len(engine.trades) : \E j \in 1..Len(engine.trades) :
          /\ i < j
          /\ engine.trades[i].marketSlug = "m1"
          /\ engine.trades[i].exitReason = "MARKET_RESOLVED"
          /\ engine.trades[i].exitTimestamp = endDate["m1"]
          /\ engine.trades[j].marketSlug = "m2"
          /\ engine.trades[j].entryTimestamp > endDate["m1"]
          /\ engine.trades[j].exitTimestamp > engine.trades[j].entryTimestamp

====
